---- MODULE Spec2Model ----
(***************************************************************************)
(* Credential and token lifecycle of the gateway backend.                  *)
(*                                                                         *)
(*   SpecKeys    the API key ledger of a user: createKey / addApiKey,      *)
(*               deleteKey, deactivateApiKey, verifyApiKey and             *)
(*               cleanupExpiredKeys, called from concurrent request slots  *)
(*   SpecIssue   NumIssuers concurrent createKey calls on a fresh user     *)
(*   SpecTokens  the upstream connection of a user: exchangeTrueLayerToken *)
(*               (connect), getAccounts with validateAndRefreshTokens and  *)
(*               updateTrueLayerTokens (commit)                            *)
(*   SpecEnsureFresh  validateAndRefreshTokens over stored connections     *)
(*   SpecService, SpecRetry  the service token cache and handleApiError    *)
(*   SpecRevoke  deleteKey and deactivateApiKey among two users            *)
(*   SpecVerifyCache  ApiKeyService.verifyKey over its LRU cache           *)
(*   SpecMask    generateKey and maskKey on strings                        *)
(*   SpecSession login, logout, refreshAccessToken and the JWT strategy    *)
(*   SpecFull    SpecKeys started from a user holding MAX_KEYS keys        *)
(*   SpecRetryFair  SpecRetry in which every attempt is answered           *)
(*   SpecRotation   SpecTokens against a provider that invalidates a       *)
(*               refresh token once it has been exchanged                  *)
(*   SpecConsole GET /keys behind the response cache, with createKey and   *)
(*               deleteKey                                                 *)
(*                                                                         *)
(* Every specification moves its own variables and leaves the others at    *)
(* their initial value.  Key times are counted in days.                    *)
(***************************************************************************)
EXTENDS Integers, Sequences, FiniteSets, TLC

VARIABLES
    now,          \* wall clock (Date.now()), in days
    apiKeys,      \* User.apiKeys: per user, the embedded array of key records
    apiKeyCount,  \* User.apiKeyCount
    docVersion,   \* User.__v (optimisticConcurrency)
    nextKeyId,    \* number of keys generated so far + 1 (fresh _id / secret)
    calls,        \* number of handler calls started so far
    req,          \* per request slot: the handler in progress and its locals
    ret,          \* the response sent by the last step, if it sent one
    keyLog,       \* per issued key id: its expiry, and whether a revoke of it
                  \* has succeeded / a clean-up has removed it
    outcome,      \* SpecIssue: per issuer, the response it received
    clock,        \* wall clock (Date.now()) of the token handlers, in seconds
    trueLayer,    \* per user: trueLayerAccessToken, trueLayerRefreshToken,
                  \* trueLayerTokenExpiresAt, trueLayerConnected,
                  \* trueLayerTokenVersion
    nextToken,    \* number of token pairs the provider has issued so far + 1
    commitLog,    \* per loaded trueLayerTokenVersion: how the
                  \* updateTrueLayerTokens calls that started from it ended
    tokenCache,   \* TrueLayerService.tokenCache: the service token and its expiry
    cacheLog,     \* the records written to tokenCache, in order
    verificationCache,  \* ApiKeyService.verificationCache: the entries of the
                        \* Map, least recently used first
    blacklist,    \* the TokenBlacklist collection
    useLog,       \* the cache keys verifyKey has looked up or stored, in order
    responseCache,  \* CacheService.cache: per user the entry under
                    \* api-keys-<user id>, or NoEntry
    usedRefresh,  \* the provider's side: the refresh tokens it has exchanged
    sessions      \* per jti: the expiry of the access and of the refresh token
                  \* login signed, and whether a logout has blacklisted the jti

keyVars == <<now, apiKeys, apiKeyCount, docVersion, nextKeyId, calls, req, ret, keyLog>>
tokenVars == <<clock, trueLayer, nextToken, commitLog, tokenCache, cacheLog>>
sessionVars == <<verificationCache, useLog, blacklist, sessions, usedRefresh, responseCache>>
otherThanKeys == <<outcome, clock, trueLayer, nextToken, commitLog, tokenCache, cacheLog,
                   sessionVars>>
otherThanTokens == <<now, apiKeys, apiKeyCount, docVersion, nextKeyId, keyLog, outcome,
                     tokenCache, cacheLog, sessionVars>>
otherThanService == <<now, apiKeys, apiKeyCount, docVersion, nextKeyId, keyLog, outcome,
                      trueLayer, commitLog, sessionVars>>
vars == <<now, apiKeys, apiKeyCount, docVersion, nextKeyId, calls, req, ret, keyLog, outcome,
          clock, trueLayer, nextToken, commitLog, tokenCache, cacheLog, verificationCache,
          useLog, blacklist, sessions, usedRefresh, responseCache>>

----------------------------------------------------------------------------
(* Bounds of the model                                                     *)

Users == {"u1"}
NumProcs == 2
MaxIssued == 6
MaxCalls == 2
KeysPerOwner == 2
MaxVerifyCalls == 4
CacheCapacity == 2
KeyBodyLen == 8
MaxSessions == 2
MaxSessionCalls == 4
MaxSessionTicks == 3
SessionTick == 450
MaxTicks == 2
TickDays == 200
NumIssuers == 10
MaxTokenCalls == 3
MaxServiceCalls == 3
MaxServiceTicks == 1
MaxTokens == 3
MaxClockTicks == 2
TickSeconds == 100
InitIssued == {0, 2, 4}
Procs == 1 .. NumProcs
Issuers == 1 .. NumIssuers

(* Program constants                                                       *)

MAX_KEYS == 5
KEY_TTL_DAYS == 365
RETENTION_DAYS == 90
FIVE_MINUTES == 300
RETRY_ATTEMPTS == 3
MASK_SHOWN == 4
MASK_FILLER == 35
ACCESS_TTL == 900
REFRESH_TTL == 604800

NULL == -1
Idle == [op |-> "idle"]
NoRet == [op |-> "none"]

\* ids and secrets a caller can present: those issued so far and one that
\* was never issued
KeyIds == 1 .. nextKeyId
IssuedIds == 1 .. (nextKeyId - 1)

----------------------------------------------------------------------------
(* KeyMaterial: services/apiKeyService.js                                  *)

\* generateKey: the n-th draw of 32 random bytes, prefixed
generateKey(n) == <<"vk", n>>

\* bcrypt.hash(key, salt): the salt is kept in the hash string
bcryptHash(key, salt) == [salt |-> salt, digest |-> <<salt, key>>]

\* bcrypt.compare(key, hashedKey): re-hash under the stored salt
bcryptCompare(key, hashedKey) == bcryptHash(key, hashedKey.salt) = hashedKey

\* ApiKeyService.hashKey: genSalt (the n-th salt drawn) then hash
hashKey(key, n) == bcryptHash(key, n)

\* ApiKeyService.verifyKey: the result of bcrypt.compare, looked up in or
\* stored into verificationCache
verifyKey(key, hashedKey) == bcryptCompare(key, hashedKey)

Secrets == {generateKey(n) : n \in 0 .. (nextKeyId - 1)}

----------------------------------------------------------------------------
(* Helpers on arrays                                                       *)

Indices(s) == 1 .. Len(s)

\* Array.prototype.findIndex, given the set of indices whose element
\* satisfies the predicate: the first of them (0 when there is none)
FindIndex(matching) ==
    IF matching = {} THEN 0
    ELSE CHOOSE i \in matching : \A j \in matching : i <= j

\* Array.prototype.splice(i, 1)
Splice(s, i) == [j \in 1 .. (Len(s) - 1) |-> IF j < i THEN s[j] ELSE s[j + 1]]

IdsOf(keys) == {keys[i].id : i \in Indices(keys)}

----------------------------------------------------------------------------
(* models/User.js                                                          *)

\* the element pushed by addApiKey, { key, name, hashedKey }, with the
\* defaults of apiKeySchema
NewApiKey(id, key, hashedKey, t) ==
    [id |-> id, key |-> key, hashedKey |-> hashedKey, lastUsed |-> NULL,
     expiresAt |-> t + KEY_TTL_DAYS, isActive |-> TRUE]

\* pre("save") hook: drop expired keys and keys unused for 90 days
isExpired(k, t) == k.expiresAt < t
isUnused(k, t) == k.lastUsed # NULL /\ t - k.lastUsed > RETENTION_DAYS
PreSaveFilter(keys, t) ==
    SelectSeq(keys, LAMBDA k : ~isExpired(k, t) /\ ~isUnused(k, t))

\* cleanupExpiredKeys: $pull of the keys with expiresAt < now or
\* lastUsed < ninetyDaysAgo
PullExpired(keys, t) ==
    SelectSeq(keys, LAMBDA k :
        ~(k.expiresAt < t) /\ ~(k.lastUsed # NULL /\ k.lastUsed < t - RETENTION_DAYS))

ActiveKeys(u) == {i \in Indices(apiKeys[u]) : apiKeys[u][i].isActive}

\* keyLog after a successful addApiKey, a successful revoke, a clean-up
LogIssued(id, t) ==
    [i \in IssuedIds \cup {id} |->
        IF i = id THEN [expiresAt |-> t + KEY_TTL_DAYS, revoked |-> FALSE, reaped |-> FALSE]
        ELSE keyLog[i]]
LogRevoked(id) ==
    [i \in IssuedIds |-> IF i = id THEN [keyLog[i] EXCEPT !.revoked = TRUE] ELSE keyLog[i]]
LogReaped(ids) ==
    [i \in IssuedIds |-> IF i \in ids THEN [keyLog[i] EXCEPT !.reaped = TRUE] ELSE keyLog[i]]

\* a new request takes the lowest free slot
Start(p) ==
    /\ req[p] = Idle
    /\ \A q \in 1 .. (p - 1) : req[q] # Idle
    /\ calls < MaxCalls
    /\ calls' = calls + 1

InFlightCreates == Cardinality({p \in Procs : req[p].op = "createKey"})

----------------------------------------------------------------------------
(* createKey (controller) and addApiKey (model method)                     *)

\* createKey: findById, then the limit check of the controller
createKeyLoad(p, u) ==
    /\ IF apiKeyCount[u] >= MAX_KEYS
       THEN /\ ret' = [op |-> "createKey", status |-> 400, error |-> "KEY_LIMIT_REACHED"]
            /\ req' = req
       ELSE /\ req' = [req EXCEPT ![p] = [op |-> "createKey", user |-> u,
                                          apiKeyCount |-> apiKeyCount[u]]]
            /\ ret' = NoRet
    /\ UNCHANGED <<now, apiKeys, apiKeyCount, docVersion, nextKeyId, keyLog>>

\* the same update without the condition on the count
AddApiKeyFilterUnconditional(u) == u \in Users

\* the filter of the findOneAndUpdate of addApiKey: apiKeyCount: { $lt: 5 }
AddApiKeyFilter(u) == apiKeyCount[u] < MAX_KEYS

\* the same update without the $inc
IncApiKeyCountDropped(n) == n

\* $inc: { apiKeyCount: 1 }, in the update that pushes the key
IncApiKeyCount(n) == n + 1

\* addApiKey, and the response createKey builds from it
addApiKey(p) ==
    /\ req[p].op = "createKey"
    /\ LET u == req[p].user
           key == generateKey(nextKeyId)
           hashedKey == hashKey(key, nextKeyId)
       IN IF req[p].apiKeyCount >= MAX_KEYS \/ ~AddApiKeyFilter(u)
          THEN /\ ret' = [op |-> "createKey", status |-> 500, error |-> "KEY_CREATION_FAILED"]
               /\ UNCHANGED <<apiKeys, apiKeyCount, nextKeyId, keyLog>>
          ELSE /\ apiKeys' = [apiKeys EXCEPT ![u] =
                                 Append(@, NewApiKey(nextKeyId, key, hashedKey, now))]
               /\ apiKeyCount' = [apiKeyCount EXCEPT ![u] = IncApiKeyCount(@)]
               /\ nextKeyId' = nextKeyId + 1
               /\ keyLog' = LogIssued(nextKeyId, now)
               /\ ret' = [op |-> "createKey", status |-> 201, key |-> key, id |-> nextKeyId]
    /\ req' = [req EXCEPT ![p] = Idle]
    /\ UNCHANGED <<now, docVersion>>

CreateKeyLoad(p, u) ==
    /\ Start(p)
    /\ nextKeyId + InFlightCreates <= MaxIssued
    /\ createKeyLoad(p, u)
    /\ UNCHANGED otherThanKeys

AddApiKey(p) ==
    /\ addApiKey(p)
    /\ UNCHANGED calls
    /\ UNCHANGED otherThanKeys

----------------------------------------------------------------------------
(* deleteKey (controller)                                                  *)

\* findById, the three checks, and the splice on the loaded document
\* whether a revoke of the key has succeeded before (history)
RevokedBefore(keyId) == keyId \in IssuedIds /\ keyLog[keyId].revoked

\* deleteKey without its expiry check
DeleteKeyRefusalNoExpiry(keys, keyIndex, t) ==
    IF keyIndex = 0 THEN "API_KEY_NOT_FOUND"
    ELSE IF ~keys[keyIndex].isActive THEN "KEY_ALREADY_INACTIVE"
    ELSE ""
\* the checks of deleteKey on the key it found, in their order: the code of
\* the error it throws, "" when it goes on to remove the key
DeleteKeyRefusal(keys, keyIndex, t) ==
    IF keyIndex = 0 THEN "API_KEY_NOT_FOUND"
    ELSE IF ~keys[keyIndex].isActive THEN "KEY_ALREADY_INACTIVE"
    ELSE IF keys[keyIndex].expiresAt < t THEN "KEY_EXPIRED"
    ELSE ""

DeleteKeyLoad(p, u, keyId) ==
    /\ Start(p)
    /\ LET keys == apiKeys[u]
           keyIndex == FindIndex({i \in Indices(keys) : keys[i].id = keyId})
           refusal == DeleteKeyRefusal(keys, keyIndex, now)
       IN IF refusal # ""
          THEN /\ ret' = [op |-> "deleteKey", user |-> u, keyId |-> keyId,
                          status |-> IF refusal = "API_KEY_NOT_FOUND" THEN 404 ELSE 400,
                          error |-> refusal]
               /\ req' = req
          ELSE /\ req' = [req EXCEPT ![p] =
                             [op |-> "deleteKey", user |-> u, keyId |-> keyId,
                              apiKeys |-> Splice(keys, keyIndex),
                              apiKeyCount |-> apiKeyCount[u], v |-> docVersion[u]]]
               /\ ret' = NoRet
    /\ UNCHANGED <<now, apiKeys, apiKeyCount, docVersion, nextKeyId, keyLog>>
    /\ UNCHANGED otherThanKeys

\* ApiKeyService.trackDeletion: records a metric, resolves without throwing
trackDeletion(keyId) == TRUE

\* user.save() of a fully loaded document: the pre-save hook, then a write
\* of the modified paths conditioned on __v
DeleteKeySave(p) ==
    /\ req[p].op = "deleteKey"
    /\ LET u == req[p].user
           kept == PreSaveFilter(req[p].apiKeys, now)
       IN IF docVersion[u] # req[p].v
          THEN /\ ret' = [op |-> "deleteKey", user |-> u, keyId |-> req[p].keyId,
                          status |-> 500, error |-> "INTERNAL_ERROR"]
               /\ UNCHANGED <<apiKeys, apiKeyCount, docVersion, keyLog>>
          ELSE /\ apiKeys' = [apiKeys EXCEPT ![u] = kept]
               /\ apiKeyCount' = [apiKeyCount EXCEPT ![u] =
                                     IF Len(kept) # req[p].apiKeyCount THEN Len(kept) ELSE @]
               /\ docVersion' = [docVersion EXCEPT ![u] = @ + 1]
               /\ trackDeletion(req[p].keyId)
               /\ keyLog' = [i \in IssuedIds |->
                               [keyLog[i] EXCEPT
                                  !.revoked = @ \/ i = req[p].keyId,
                                  !.reaped = @ \/ i \in IdsOf(req[p].apiKeys) \ IdsOf(kept)]]
               /\ ret' = [op |-> "deleteKey", user |-> u, keyId |-> req[p].keyId,
                          status |-> 200, remainingKeys |-> Len(kept),
                          revokedBefore |-> RevokedBefore(req[p].keyId)]
    /\ req' = [req EXCEPT ![p] = Idle]
    /\ UNCHANGED <<now, nextKeyId, calls>>
    /\ UNCHANGED otherThanKeys

----------------------------------------------------------------------------
(* deactivateApiKey (model method)                                         *)

\* The filter { "apiKeys._id": keyId, "apiKeys.isActive": true } holds of the
\* document when some element has the id and some element is active.
DeactivateFilter(keys, keyId) ==
    /\ \E i \in Indices(keys) : keys[i].id = keyId
    /\ \E i \in Indices(keys) : keys[i].isActive

\* "apiKeys.$": with two conditions on the array and no $elemMatch the
\* position is that of the first element matching one of the conditions.
DeactivatePositions(keys, keyId) ==
    {FindIndex({i \in Indices(keys) : keys[i].id = keyId}),
     FindIndex({i \in Indices(keys) : keys[i].isActive})}

DeactivateApiKey(p, u, keyId) ==
    /\ Start(p)
    /\ IF ~DeactivateFilter(apiKeys[u], keyId)
       THEN /\ ret' = [op |-> "deactivateApiKey", keyId |-> keyId, ok |-> FALSE]
            /\ UNCHANGED <<apiKeys, keyLog>>
       ELSE \E pos \in DeactivatePositions(apiKeys[u], keyId) :
            /\ apiKeys' = [apiKeys EXCEPT ![u][pos].isActive = FALSE]
            /\ keyLog' = LogRevoked(keyId)
            /\ ret' = [op |-> "deactivateApiKey", keyId |-> keyId, ok |-> TRUE,
                       revokedBefore |-> RevokedBefore(keyId)]
    /\ UNCHANGED <<now, apiKeyCount, docVersion, nextKeyId, req>>
    /\ UNCHANGED otherThanKeys

----------------------------------------------------------------------------
(* getApiKeys (console controller)                                         *)

\* the metadata returned for the stored keys, in stored order, with no filter
KeyMetadata(keys) ==
    [i \in 1 .. Len(keys) |-> [id |-> keys[i].id, isActive |-> keys[i].isActive]]

GetApiKeys(p, u) ==
    /\ Start(p)
    /\ ret' = [op |-> "getApiKeys", user |-> u, keys |-> KeyMetadata(apiKeys[u])]
    /\ UNCHANGED <<now, apiKeys, apiKeyCount, docVersion, nextKeyId, req, keyLog>>
    /\ UNCHANGED otherThanKeys

----------------------------------------------------------------------------
(* verifyApiKey (apiKeyMethods.js, assigned over the method of User.js)    *)

\* the condition under which the loop accepts a stored key
VerifyAccepts(k, key) == k.isActive /\ verifyKey(key, k.hashedKey)

\* what is known of the presented secret when the call is made
Presented(key) ==
    LET owner == {i \in IssuedIds : generateKey(i) = key}
    IN [key |-> key, at |-> now,
        usable |-> \E i \in owner : /\ ~keyLog[i].revoked
                                    /\ ~keyLog[i].reaped
                                    /\ ~(keyLog[i].expiresAt < now),
        revoked |-> \E i \in owner : keyLog[i].revoked]

\* findById(...).select("apiKeys"), then the loop over the keys
VerifyApiKeyLoad(p, u, key) ==
    /\ Start(p)
    /\ LET keys == apiKeys[u]
           hit == FindIndex({i \in Indices(keys) : VerifyAccepts(keys[i], key)})
       IN IF hit = 0
          THEN /\ ret' = [op |-> "verifyApiKey", result |-> FALSE, call |-> Presented(key)]
               /\ req' = req
          ELSE /\ req' = [req EXCEPT ![p] =
                             [op |-> "verifyApiKey", user |-> u, call |-> Presented(key),
                              matched |-> keys[hit],
                              apiKeys |-> [keys EXCEPT ![hit].lastUsed = now]]]
               /\ ret' = NoRet
    /\ UNCHANGED <<now, apiKeys, apiKeyCount, docVersion, nextKeyId, keyLog>>
    /\ UNCHANGED otherThanKeys

\* user.save() of the document loaded with select("apiKeys"): __v was not
\* selected, so the write is not conditioned on it
VerifyApiKeySave(p) ==
    /\ req[p].op = "verifyApiKey"
    /\ LET u == req[p].user
           kept == PreSaveFilter(req[p].apiKeys, now)
       IN /\ apiKeys' = [apiKeys EXCEPT ![u] = kept]
          /\ apiKeyCount' = [apiKeyCount EXCEPT ![u] = Len(kept)]
          /\ keyLog' = LogReaped(IdsOf(req[p].apiKeys) \ IdsOf(kept))
          /\ ret' = [op |-> "verifyApiKey", result |-> TRUE, call |-> req[p].call,
                     matched |-> req[p].matched]
    /\ req' = [req EXCEPT ![p] = Idle]
    /\ UNCHANGED <<now, docVersion, nextKeyId, calls>>
    /\ UNCHANGED otherThanKeys

----------------------------------------------------------------------------
(* cleanupExpiredKeys (static)                                             *)

CleanupStart(p) ==
    /\ Start(p)
    /\ req' = [req EXCEPT ![p] = [op |-> "cleanupExpiredKeys", at |-> now, pending |-> Users]]
    /\ ret' = NoRet
    /\ UNCHANGED <<now, apiKeys, apiKeyCount, docVersion, nextKeyId, keyLog>>
    /\ UNCHANGED otherThanKeys

\* updateMany: one atomic $pull per user document; the aggregate that
\* follows computes $size but writes nothing back
CleanupPull(p, u) ==
    /\ req[p].op = "cleanupExpiredKeys"
    /\ u \in req[p].pending
    /\ apiKeys' = [apiKeys EXCEPT ![u] = PullExpired(@, req[p].at)]
    /\ keyLog' = LogReaped(IdsOf(apiKeys[u]) \ IdsOf(PullExpired(apiKeys[u], req[p].at)))
    /\ IF req[p].pending = {u}
       THEN /\ req' = [req EXCEPT ![p] = Idle]
            /\ ret' = [op |-> "cleanupExpiredKeys"]
       ELSE /\ req' = [req EXCEPT ![p].pending = @ \ {u}]
            /\ ret' = NoRet
    /\ UNCHANGED <<now, apiKeyCount, docVersion, nextKeyId, calls>>
    /\ UNCHANGED otherThanKeys

----------------------------------------------------------------------------
Tick ==
    /\ now + TickDays <= MaxTicks * TickDays
    /\ now' = now + TickDays
    /\ ret' = NoRet
    /\ UNCHANGED <<apiKeys, apiKeyCount, docVersion, nextKeyId, req, calls, keyLog>>
    /\ UNCHANGED otherThanKeys

\* a process that has verified no key, and no token logged out
InitSession ==
    /\ verificationCache = <<>>
    /\ useLog = <<>>
    /\ usedRefresh = {}
    /\ responseCache = [u \in Users |-> [cached |-> FALSE]]
    /\ blacklist = {}
    /\ sessions = <<>>

\* the ledger of a user after n successful createKey calls at time 0
Issued(n) ==
    [i \in 1 .. n |-> NewApiKey(i, generateKey(i), hashKey(generateKey(i), i), 0)]

InitLedger(n) ==
    /\ now = 0
    /\ apiKeys = [u \in Users |-> Issued(n)]
    /\ apiKeyCount = [u \in Users |-> n]
    /\ nextKeyId = n + 1
    /\ keyLog = [i \in 1 .. n |->
                   [expiresAt |-> KEY_TTL_DAYS, revoked |-> FALSE, reaped |-> FALSE]]
    /\ docVersion = [u \in Users |-> 0]
    /\ calls = 0
    /\ ret = NoRet
    /\ InitSession

\* a token field that holds no value
NoToken == <<"none", 0>>

\* initializeTokenCache: no service token
EmptyCache == [token |-> NoToken, expiresAt |-> NULL]

\* the upstream connection of a freshly registered user (schema defaults)
\* and the token cache of a freshly constructed service
InitConnection ==
    /\ clock = 0
    /\ trueLayer = [u \in Users |->
                      [accessToken |-> NoToken, refreshToken |-> NoToken, tokenExpiresAt |-> NULL,
                       connected |-> FALSE, tokenVersion |-> 0]]
    /\ nextToken = 1
    /\ commitLog = <<>>
    /\ tokenCache = EmptyCache
    /\ cacheLog = <<>>

InitKeys ==
    /\ \E n \in InitIssued : InitLedger(n)
    /\ req = [p \in Procs |-> Idle]
    /\ outcome = <<>>
    /\ InitConnection

NextKeys ==
    \/ \E p \in Procs, u \in Users : CreateKeyLoad(p, u)
    \/ \E p \in Procs : AddApiKey(p)
    \/ \E p \in Procs, u \in Users, keyId \in KeyIds : DeleteKeyLoad(p, u, keyId)
    \/ \E p \in Procs : DeleteKeySave(p)
    \/ \E p \in Procs, u \in Users, keyId \in KeyIds : DeactivateApiKey(p, u, keyId)
    \/ \E p \in Procs, u \in Users : GetApiKeys(p, u)
    \/ \E p \in Procs, u \in Users, key \in Secrets : VerifyApiKeyLoad(p, u, key)
    \/ \E p \in Procs : VerifyApiKeySave(p)
    \/ \E p \in Procs : CleanupStart(p)
    \/ \E p \in Procs, u \in Users : CleanupPull(p, u)
    \/ Tick

SpecKeys == InitKeys /\ [][NextKeys]_vars

-----------------------------------------------------------------------------
(* GET /keys behind cacheResponse(60) (consoleRoutes.js) and the           *)
(* CacheService it uses (cacheService.js)                                  *)

\* list requests are admitted up to this many handler calls
MaxConsoleCalls == 3
\* cacheResponse(60): the duration in seconds
CACHE_DURATION == 60
\* Date.now() in seconds, the model's time being in days
DateNow == now * (24 * 60 * 60)

NoEntry == [cached |-> FALSE]

\* CacheService.get(key): the value of an entry that has not expired, or
\* undefined (found = FALSE)
CacheServiceGet(u) ==
    IF ~responseCache[u].cached THEN [found |-> FALSE]
    ELSE IF DateNow > responseCache[u].expiresAt THEN [found |-> FALSE]
    ELSE [found |-> TRUE, value |-> responseCache[u].value]

\* what the Map holds after get(key): an expired entry is deleted
AfterCacheServiceGet(u) ==
    IF responseCache[u].cached /\ DateNow > responseCache[u].expiresAt
    THEN [responseCache EXCEPT ![u] = NoEntry]
    ELSE responseCache

\* CacheService.set(key, value, ttl); with one key per user the Map stays
\* below maxSize (1000), so removeOldest does not run
CacheServiceSet(cache, u, value, ttl) ==
    [cache EXCEPT ![u] = [cached |-> TRUE, value |-> value,
                          expiresAt |-> DateNow + ttl, createdAt |-> DateNow]]

consoleFrame ==
    <<outcome, tokenVars, verificationCache, useLog, blacklist, sessions, usedRefresh>>

StartConsole(p) ==
    /\ req[p] = Idle
    /\ \A q \in 1 .. (p - 1) : req[q] # Idle
    /\ calls < MaxConsoleCalls
    /\ calls' = calls + 1

\* cacheResponse: a cached response is served unless bypass_cache is set,
\* otherwise res.json is wrapped and getApiKeys runs up to its findById
CacheResponse(p, u, bypass) ==
    /\ StartConsole(p)
    /\ LET cachedResponse == CacheServiceGet(u)
       IN /\ responseCache' = AfterCacheServiceGet(u)
          /\ IF cachedResponse.found /\ ~bypass
             THEN /\ ret' = [op |-> "getApiKeys", user |-> u,
                             keys |-> cachedResponse.value.keys,
                             fromCache |-> TRUE]
                  /\ req' = req
             ELSE /\ req' = [req EXCEPT ![p] = [op |-> "getApiKeys", user |-> u,
                                                pc |-> "findById"]]
                  /\ ret' = NoRet
    /\ UNCHANGED <<now, apiKeys, apiKeyCount, docVersion, nextKeyId, keyLog>>
    /\ UNCHANGED consoleFrame

\* getApiKeys after findById: the response is sent through the wrapped
\* res.json, which stores it for CACHE_DURATION seconds
GetApiKeysRespond(p) ==
    /\ req[p].op = "getApiKeys" /\ req[p].pc = "findById"
    /\ LET u == req[p].user
           data == [success |-> TRUE, keys |-> KeyMetadata(apiKeys[u])]
       IN /\ responseCache' = CacheServiceSet(responseCache, u, data, CACHE_DURATION)
          /\ ret' = [op |-> "getApiKeys", user |-> u, keys |-> data.keys,
                     fromCache |-> FALSE]
    /\ req' = [req EXCEPT ![p] = Idle]
    /\ UNCHANGED <<now, apiKeys, apiKeyCount, docVersion, nextKeyId, keyLog, calls>>
    /\ UNCHANGED consoleFrame

\* POST /cache/clear?userId=u (admin)
ClearUserCache(u) ==
    /\ responseCache[u].cached
    /\ responseCache' = [responseCache EXCEPT ![u] = NoEntry]
    /\ ret' = NoRet
    /\ UNCHANGED <<now, apiKeys, apiKeyCount, docVersion, nextKeyId, keyLog, calls, req>>
    /\ UNCHANGED consoleFrame

NextConsole ==
    \/ \E p \in Procs, u \in Users : CreateKeyLoad(p, u)
    \/ \E p \in Procs : AddApiKey(p)
    \/ \E p \in Procs, u \in Users, keyId \in KeyIds : DeleteKeyLoad(p, u, keyId)
    \/ \E p \in Procs : DeleteKeySave(p)
    \/ \E p \in Procs, u \in Users, bypass \in BOOLEAN : CacheResponse(p, u, bypass)
    \/ \E p \in Procs : GetApiKeysRespond(p)
    \/ \E u \in Users : ClearUserCache(u)
    \/ Tick

SpecConsole == InitKeys /\ [][NextConsole]_vars

\* the same handlers for a user who holds MAX_KEYS keys
InitFull ==
    /\ InitLedger(MAX_KEYS)
    /\ req = [p \in Procs |-> Idle]
    /\ outcome = <<>>
    /\ InitConnection

SpecFull == InitFull /\ [][NextKeys]_vars

----------------------------------------------------------------------------
(* Revocation among two users, each holding keys of their own              *)

KeyOwners == {"u1", "u2"}

\* the first id of the keys of a user
FirstId(u) == IF u = "u1" THEN 0 ELSE KeysPerOwner

\* the keys of u after KeysPerOwner successful createKey calls at time 0
IssuedTo(u) ==
    [i \in 1 .. KeysPerOwner |->
        NewApiKey(FirstId(u) + i, generateKey(FirstId(u) + i),
                  hashKey(generateKey(FirstId(u) + i), FirstId(u) + i), 0)]

InitRevoke ==
    /\ now = 0
    /\ apiKeys = [u \in KeyOwners |-> IssuedTo(u)]
    /\ apiKeyCount = [u \in KeyOwners |-> KeysPerOwner]
    /\ nextKeyId = 2 * KeysPerOwner + 1
    /\ keyLog = [i \in 1 .. 2 * KeysPerOwner |->
                   [expiresAt |-> KEY_TTL_DAYS, revoked |-> FALSE, reaped |-> FALSE]]
    /\ docVersion = [u \in KeyOwners |-> 0]
    /\ calls = 0
    /\ ret = NoRet
    /\ InitSession
    /\ req = [p \in Procs |-> Idle]
    /\ outcome = <<>>
    /\ InitConnection

NextRevoke ==
    \/ \E p \in Procs, u \in KeyOwners, keyId \in KeyIds : DeleteKeyLoad(p, u, keyId)
    \/ \E p \in Procs : DeleteKeySave(p)
    \/ \E p \in Procs, u \in KeyOwners, keyId \in KeyIds : DeactivateApiKey(p, u, keyId)
    \/ \E p \in Procs, u \in KeyOwners : GetApiKeys(p, u)
    \/ Tick

SpecRevoke == InitRevoke /\ [][NextRevoke]_vars

----------------------------------------------------------------------------
(* SpecIssue: NumIssuers createKey requests on a fresh user, all in flight  *)
(* together                                                                *)

Response(r) == IF r.status = 201 THEN "CREATED" ELSE r.error

IssuerLoad(i, u) ==
    /\ outcome[i] = "none"
    /\ \A j \in 1 .. (i - 1) : outcome[j] # "none"
    /\ createKeyLoad(i, u)
    /\ outcome' = [outcome EXCEPT ![i] = IF ret' = NoRet THEN "pending" ELSE Response(ret')]
    /\ UNCHANGED calls
    /\ UNCHANGED <<tokenVars, sessionVars>>

IssuerAdd(i) ==
    /\ outcome[i] = "pending"
    /\ addApiKey(i)
    /\ outcome' = [outcome EXCEPT ![i] = Response(ret')]
    /\ UNCHANGED calls
    /\ UNCHANGED <<tokenVars, sessionVars>>

InitIssue ==
    /\ InitLedger(0)
    /\ req = [i \in Issuers |-> Idle]
    /\ outcome = [i \in Issuers |-> "none"]
    /\ InitConnection

NextIssue ==
    \/ \E i \in Issuers, u \in Users : IssuerLoad(i, u)
    \/ \E i \in Issuers : IssuerAdd(i)

SpecIssue == InitIssue /\ [][NextIssue]_vars

----------------------------------------------------------------------------
(* TrueLayerService (services/trueLayerService.js): the calls to the       *)
(* provider's token endpoint                                               *)

\* what the provider can answer to a grant: a token pair with an
\* expires_in, an error status, or nothing at all (timeout, connection lost)
ExpiresIn == {0, 400}
ErrorStatuses == {400, 401, 500}
NoResponse == [status |-> 0]
TokenResponses ==
    [status : {200}, expires_in : ExpiresIn] \cup [status : ErrorStatuses] \cup {NoResponse}

\* the pair the provider issues on its n-th successful grant
IssuedTokens(n, expires_in) ==
    [access_token |-> <<"access", n>>, refresh_token |-> <<"refresh", n>>,
     expires_in |-> expires_in]

\* the axios error of a failed attempt: error.response is absent when no
\* response arrived
AxiosError(resp) ==
    [message |-> "Request failed", statusCode |-> NULL,
     response |-> IF resp = NoResponse THEN NULL ELSE resp.status]

\* handleApiError: a failed attempt is sent again when shouldRetry holds and
\* axiosConfig._retry < retryAttempts; _retry is NULL until a re-send sets it
ShouldRetryOnClientError(error) == error.response = NULL \/ error.response >= 400
ShouldRetry(error) == error.response = NULL \/ error.response >= 500
RetryAgainUncapped(error, retry) == ShouldRetry(error) /\ retry # NULL
RetryAgain(error, retry) ==
    ShouldRetry(error) /\ retry # NULL /\ retry < RETRY_ATTEMPTS

\* createTrueLayerError(message, originalError)
createTrueLayerError(message, originalError) ==
    [message |-> message,
     statusCode |-> IF originalError.response # NULL THEN originalError.response ELSE 500,
     response |-> NULL]

\* the catch block of validateAndRefreshTokens around refreshTokens
RefreshFailure(error) ==
    IF error.response = 400 THEN createTrueLayerError("Invalid refresh token", error)
    ELSE IF error.response = 401
         THEN createTrueLayerError(
                 "TrueLayer connection expired. Please reconnect your account.", error)
         ELSE error

\* validateAndRefreshTokens: the stored pair is returned unchanged unless
\* expiresAt <= now + fiveMinutes
NeedsRefreshStrict(expiresAt, t) == expiresAt < t + FIVE_MINUTES
NeedsRefresh(expiresAt, t) == expiresAt <= t + FIVE_MINUTES

\* new Date(user.trueLayerTokenExpiresAt): a missing value reads as the epoch
DateOf(expiresAt) == IF expiresAt = NULL THEN 0 ELSE expiresAt

StartToken(p) ==
    /\ req[p] = Idle
    /\ \A q \in 1 .. (p - 1) : req[q] # Idle
    /\ calls < MaxTokenCalls
    /\ calls' = calls + 1

----------------------------------------------------------------------------
(* userSchema.methods.updateTrueLayerTokens                                *)

\* the validator of trueLayerTokenExpiresAt, run by runValidators
ExpiresAtValid(value, t) == value = NULL \/ value > t

\* the filter of the findOneAndUpdate: the version the caller loaded
UpdateTokensFilterIdOnly(u, loadedVersion) == u \in Users /\ loadedVersion \in Nat
UpdateTokensFilter(u, loadedVersion) == trueLayer[u].tokenVersion = loadedVersion

\* $set of the four fields
SetTokensOnly(conn, tokens, t) ==
    [conn EXCEPT !.accessToken = tokens.access_token,
                 !.refreshToken = tokens.refresh_token,
                 !.tokenExpiresAt = t + tokens.expires_in,
                 !.connected = FALSE]
SetTokens(conn, tokens, t) ==
    [conn EXCEPT !.accessToken = tokens.access_token,
                 !.refreshToken = tokens.refresh_token,
                 !.tokenExpiresAt = t + tokens.expires_in,
                 !.connected = TRUE]

\* $inc of trueLayerTokenVersion
IncVersionDropped(conn) == [conn EXCEPT !.tokenVersion = @]
IncVersion(conn) == [conn EXCEPT !.tokenVersion = @ + 1]

UpdatedConnection(conn, tokens, t) == IncVersion(SetTokens(conn, tokens, t))

Logged(v, how) ==
    [w \in DOMAIN commitLog \cup {v} |->
        IF w = v THEN (IF v \in DOMAIN commitLog THEN commitLog[v] ELSE <<>>) \o <<how>>
        ELSE commitLog[w]]

\* result is "ok", "invalid" (validation error) or "conflict" (the
\* "concurrent modification" error)
UpdateResult(u, loadedVersion, tokens) ==
    IF ~ExpiresAtValid(clock + tokens.expires_in, clock) THEN "invalid"
    ELSE IF ~UpdateTokensFilter(u, loadedVersion) THEN "conflict"
    ELSE "ok"

\* the same update applied although the filter matched no document
updateTrueLayerTokensUnfiltered(u, loadedVersion, tokens) ==
    LET how == UpdateResult(u, loadedVersion, tokens)
    IN /\ trueLayer' = IF how # "invalid"
                       THEN [trueLayer EXCEPT ![u] = UpdatedConnection(@, tokens, clock)]
                       ELSE trueLayer
       /\ commitLog' = Logged(loadedVersion, [result |-> how, expires_in |-> tokens.expires_in])

updateTrueLayerTokens(u, loadedVersion, tokens) ==
    LET how == UpdateResult(u, loadedVersion, tokens)
    IN /\ trueLayer' = IF how = "ok"
                       THEN [trueLayer EXCEPT ![u] = UpdatedConnection(@, tokens, clock)]
                       ELSE trueLayer
       /\ commitLog' = Logged(loadedVersion, [result |-> how, expires_in |-> tokens.expires_in])

----------------------------------------------------------------------------
(* exchangeTrueLayerToken (controller): connect                            *)

\* the same test with < in place of <=
ExpiryRejectedStrict(expiresAt, t) == expiresAt < t

\* expiresAt <= new Date()
ExpiryRejected(expiresAt, t) == expiresAt <= t

\* exchangeAuthorizationCode, then the test that the expiry is in the future
ConnectExchange(p, u, resp) ==
    /\ StartToken(p)
    /\ resp.status = 200 => nextToken <= MaxTokens
    /\ IF resp.status # 200
       THEN /\ ret' = [op |-> "connect", status |-> IF resp = NoResponse THEN 500 ELSE resp.status,
                       error |-> "TRUELAYER_EXCHANGE_FAILED"]
            /\ UNCHANGED <<req, nextToken>>
       ELSE /\ nextToken' = nextToken + 1
            /\ IF ExpiryRejected(clock + resp.expires_in, clock)
               THEN /\ ret' = [op |-> "connect", status |-> 400,
                               error |-> "INVALID_TOKEN_EXPIRATION", user |-> u,
                               expires_in |-> resp.expires_in]
                    /\ req' = req
               ELSE /\ req' = [req EXCEPT ![p] =
                                  [op |-> "connect", pc |-> "findById", user |-> u,
                                   tokens |-> IssuedTokens(nextToken, resp.expires_in)]]
                    /\ ret' = NoRet
    /\ UNCHANGED <<clock, trueLayer, commitLog>>
    /\ UNCHANGED otherThanTokens

\* User.findById(userId)
ConnectLoad(p) ==
    /\ req[p].op = "connect" /\ req[p].pc = "findById"
    /\ req' = [req EXCEPT ![p] = [op |-> "connect", pc |-> "update", user |-> @.user,
                                  tokens |-> @.tokens,
                                  tokenVersion |-> trueLayer[@.user].tokenVersion]]
    /\ ret' = NoRet
    /\ UNCHANGED <<clock, trueLayer, nextToken, commitLog, calls>>
    /\ UNCHANGED otherThanTokens

\* user.updateTrueLayerTokens(tokens); any failure is answered 409
ConnectCommit(p) ==
    /\ req[p].op = "connect" /\ req[p].pc = "update"
    /\ LET u == req[p].user
           how == UpdateResult(u, req[p].tokenVersion, req[p].tokens)
       IN /\ updateTrueLayerTokens(u, req[p].tokenVersion, req[p].tokens)
          /\ ret' = [op |-> "connect", status |-> IF how = "ok" THEN 200 ELSE 409,
                     error |-> IF how = "ok" THEN "" ELSE "TOKEN_UPDATE_FAILED",
                     commit |-> how, tokenVersion |-> req[p].tokenVersion,
                     tokens |-> req[p].tokens, user |-> u]
    /\ req' = [req EXCEPT ![p] = Idle]
    /\ UNCHANGED <<clock, nextToken, calls>>
    /\ UNCHANGED otherThanTokens

----------------------------------------------------------------------------
(* getAccounts (controller) with validateAndRefreshTokens                  *)

\* findById with the tokens selected, the connected check, and
\* validateAndRefreshTokens up to the first await
GetAccountsLoad(p, u) ==
    /\ StartToken(p)
    /\ LET conn == trueLayer[u]
           expiresAt == DateOf(conn.tokenExpiresAt)
           fail(status, error) ==
               /\ ret' = [op |-> "getAccounts", stage |-> "load", status |-> status,
                          error |-> error]
               /\ req' = req
           loaded(pc, tokens) ==
               /\ req' = [req EXCEPT ![p] =
                             [op |-> "getAccounts", pc |-> pc, user |-> u, loaded |-> conn,
                              at |-> clock, tokens |-> tokens, upstreamCalls |-> 0,
                              retry |-> NULL]]
               /\ ret' = NoRet
       IN IF ~conn.connected THEN fail(400, "NOT_CONNECTED")
          ELSE IF conn.accessToken = NoToken \/ conn.refreshToken = NoToken
               THEN fail(500, "ACCOUNTS_FETCH_FAILED")
          ELSE IF NeedsRefresh(expiresAt, clock) THEN loaded("refresh", NULL)
          ELSE loaded("update", [access_token |-> conn.accessToken,
                                 refresh_token |-> conn.refreshToken,
                                 expires_in |-> expiresAt - clock])
    /\ UNCHANGED <<clock, trueLayer, nextToken, commitLog>>
    /\ UNCHANGED otherThanTokens

\* refreshTokens: one attempt of the refresh grant and what handleApiError,
\* refreshTokens and validateAndRefreshTokens make of its answer
refreshTokens(p, resp) ==
    /\ req[p].op = "getAccounts" /\ req[p].pc = "refresh"
    /\ resp.status = 200 => nextToken <= MaxTokens
    /\ IF resp.status = 200
       THEN /\ req' = [req EXCEPT ![p].pc = "update",
                                  ![p].tokens = IssuedTokens(nextToken, resp.expires_in),
                                  ![p].upstreamCalls = @ + 1]
            /\ nextToken' = nextToken + 1
            /\ ret' = NoRet
       ELSE IF RetryAgain(AxiosError(resp), req[p].retry)
       THEN /\ req' = [req EXCEPT ![p].retry = @ + 1, ![p].upstreamCalls = @ + 1]
            /\ ret' = NoRet
            /\ UNCHANGED nextToken
       ELSE LET wrapped == createTrueLayerError("Failed to refresh TrueLayer tokens",
                                                AxiosError(resp))
                thrown == RefreshFailure(wrapped)
            IN /\ ret' = [op |-> "getAccounts", stage |-> "refresh", user |-> req[p].user,
                          status |-> thrown.statusCode,
                          error |-> "ACCOUNTS_FETCH_FAILED", thrown |-> thrown,
                          upstream |-> AxiosError(resp).response]
               /\ req' = [req EXCEPT ![p] = Idle]
               /\ UNCHANGED nextToken
    /\ UNCHANGED <<clock, trueLayer, commitLog, calls>>

GetAccountsRefresh(p, resp) ==
    /\ refreshTokens(p, resp)
    /\ UNCHANGED otherThanTokens

\* validTokens !== user.trueLayerAccessToken compares an object with a
\* string, so updateTrueLayerTokens is always called
GetAccountsCommit(p) ==
    /\ req[p].op = "getAccounts" /\ req[p].pc = "update"
    /\ LET u == req[p].user
           how == UpdateResult(u, req[p].loaded.tokenVersion, req[p].tokens)
       IN /\ updateTrueLayerTokens(u, req[p].loaded.tokenVersion, req[p].tokens)
          /\ IF how = "ok"
             THEN /\ req' = [req EXCEPT ![p].pc = "fetch"]
                  /\ ret' = [op |-> "commit", commit |-> how,
                             tokenVersion |-> req[p].loaded.tokenVersion,
                             tokens |-> req[p].tokens]
             ELSE /\ req' = [req EXCEPT ![p] = Idle]
                  /\ ret' = [op |-> "getAccounts", stage |-> "update", status |-> 500,
                             error |-> "ACCOUNTS_FETCH_FAILED", commit |-> how,
                             tokenVersion |-> req[p].loaded.tokenVersion,
                             tokens |-> req[p].tokens, user |-> u,
                             upstreamCalls |-> req[p].upstreamCalls]
    /\ UNCHANGED <<clock, nextToken, calls>>
    /\ UNCHANGED otherThanTokens

\* TrueLayerService.getAccounts(validTokens.access_token)
GetAccountsFetch(p, resp) ==
    /\ req[p].op = "getAccounts" /\ req[p].pc = "fetch"
    /\ ret' = IF resp.status = 200
              THEN [op |-> "getAccounts", stage |-> "fetch", status |-> 200, error |-> ""]
              ELSE LET thrown == createTrueLayerError("Failed to fetch accounts",
                                                      AxiosError(resp))
                   IN [op |-> "getAccounts", stage |-> "fetch", status |-> thrown.statusCode,
                       error |-> "ACCOUNTS_FETCH_FAILED", thrown |-> thrown,
                       upstream |-> AxiosError(resp).response]
    /\ req' = [req EXCEPT ![p] = Idle]
    /\ UNCHANGED <<clock, trueLayer, nextToken, commitLog, calls>>
    /\ UNCHANGED otherThanTokens

DataResponses == [status : {200} \cup ErrorStatuses] \cup {NoResponse}

TickClock ==
    /\ clock + TickSeconds <= MaxClockTicks * TickSeconds
    /\ clock' = clock + TickSeconds
    /\ ret' = NoRet
    /\ UNCHANGED <<trueLayer, nextToken, commitLog, calls, req>>
    /\ UNCHANGED otherThanTokens

InitTokens ==
    /\ InitConnection
    /\ InitLedger(0)
    /\ req = [p \in Procs |-> Idle]
    /\ outcome = <<>>

NextTokens ==
    \/ \E p \in Procs, u \in Users, resp \in TokenResponses : ConnectExchange(p, u, resp)
    \/ \E p \in Procs : ConnectLoad(p)
    \/ \E p \in Procs : ConnectCommit(p)
    \/ \E p \in Procs, u \in Users : GetAccountsLoad(p, u)
    \/ \E p \in Procs, resp \in TokenResponses : GetAccountsRefresh(p, resp)
    \/ \E p \in Procs : GetAccountsCommit(p)
    \/ \E p \in Procs, resp \in DataResponses : GetAccountsFetch(p, resp)
    \/ TickClock

SpecTokens == InitTokens /\ [][NextTokens]_vars

-----------------------------------------------------------------------------
(* The same requests against a provider that rotates refresh tokens: a     *)
(* refresh token is exchanged at most once, every later grant with it is   *)
(* answered with an error, and a granted pair has a positive lifetime.     *)

RotatingResponses(token) ==
    {r \in TokenResponses : r.status = 200 => (r.expires_in > 0 /\ token \notin usedRefresh)}

RotatingRefresh(p, resp) ==
    /\ refreshTokens(p, resp)
    /\ resp \in RotatingResponses(req[p].loaded.refreshToken)
    /\ usedRefresh' = IF resp.status = 200
                      THEN usedRefresh \cup {req[p].loaded.refreshToken}
                      ELSE usedRefresh
    /\ UNCHANGED <<now, apiKeys, apiKeyCount, docVersion, nextKeyId, keyLog, outcome,
                   tokenCache, cacheLog, verificationCache, useLog, blacklist, sessions,
                   responseCache>>

NextRotation ==
    \/ \E p \in Procs, u \in Users, resp \in TokenResponses : ConnectExchange(p, u, resp)
    \/ \E p \in Procs : ConnectLoad(p)
    \/ \E p \in Procs : ConnectCommit(p)
    \/ \E p \in Procs, u \in Users : GetAccountsLoad(p, u)
    \/ \E p \in Procs, resp \in TokenResponses : RotatingRefresh(p, resp)
    \/ \E p \in Procs : GetAccountsCommit(p)
    \/ \E p \in Procs, resp \in DataResponses : GetAccountsFetch(p, resp)
    \/ TickClock

SpecRotation == InitTokens /\ [][NextRotation]_vars

----------------------------------------------------------------------------
(* validateAndRefreshTokens called on a user document as it can be stored: *)
(* the token fields set or unset, trueLayerTokenExpiresAt null (the schema *)
(* default), absent, unparseable, or a date                                *)

\* values of a Date field that hold no date: undefined and a value that
\* new Date() cannot parse (NULL is the schema default null)
UNDEFINED == -2
INVALID_DATE == -3

\* new Date(value).getTime(): null reads as the epoch, undefined and an
\* unparseable value as NaN
NaN == -4
DateValue(value) ==
    IF value = NULL THEN 0
    ELSE IF value \in {UNDEFINED, INVALID_DATE} THEN NaN
    ELSE value

StoredExpiries == {NULL, UNDEFINED, INVALID_DATE, 200, 500}
StoredTokens == {NoToken, <<"stored", 0>>}
StoredConnections ==
    [accessToken : StoredTokens, refreshToken : StoredTokens,
     tokenExpiresAt : StoredExpiries, connected : {TRUE}, tokenVersion : {0}]

\* the part of validateAndRefreshTokens before the first await: what it
\* throws, or that it goes on to refresh, or the pair it returns
ValidateTokens(conn, t) ==
    IF conn.accessToken = NoToken \/ conn.refreshToken = NoToken
    THEN [kind |-> "throw",
          thrown |-> createTrueLayerError("User not properly connected to TrueLayer",
                                          [response |-> NULL])]
    ELSE IF DateValue(conn.tokenExpiresAt) = NaN
    THEN [kind |-> "throw",
          thrown |-> createTrueLayerError("Invalid token expiration date",
                                          [response |-> NULL])]
    ELSE IF NeedsRefresh(DateValue(conn.tokenExpiresAt), t)
    THEN [kind |-> "refresh"]
    ELSE [kind |-> "return",
          tokens |-> [access_token |-> conn.accessToken,
                      refresh_token |-> conn.refreshToken,
                      expires_in |-> DateValue(conn.tokenExpiresAt) - t]]

EnsureFreshStart(p, u) ==
    /\ StartToken(p)
    /\ LET conn == trueLayer[u]
           v == ValidateTokens(conn, clock)
       IN IF v.kind = "refresh"
          THEN /\ req' = [req EXCEPT ![p] =
                             [op |-> "ensureFresh", pc |-> "refresh", user |-> u,
                              loaded |-> conn, at |-> clock, upstreamCalls |-> 0,
                              retry |-> NULL]]
               /\ ret' = NoRet
          ELSE /\ ret' = [op |-> "ensureFresh", user |-> u, loaded |-> conn, at |-> clock,
                          upstreamCalls |-> 0, result |-> v]
               /\ req' = req
    /\ UNCHANGED <<clock, trueLayer, nextToken, commitLog>>
    /\ UNCHANGED otherThanTokens

\* refreshTokens and the catch around it
EnsureFreshRefresh(p, resp) ==
    /\ req[p].op = "ensureFresh" /\ req[p].pc = "refresh"
    /\ resp.status = 200 => nextToken <= MaxTokens
    /\ LET r == req[p]
           done(result) ==
               /\ ret' = [op |-> "ensureFresh", user |-> r.user, loaded |-> r.loaded,
                          at |-> r.at, upstreamCalls |-> r.upstreamCalls + 1,
                          result |-> result]
               /\ req' = [req EXCEPT ![p] = Idle]
       IN IF resp.status = 200
          THEN /\ done([kind |-> "return",
                        tokens |-> IssuedTokens(nextToken, resp.expires_in)])
               /\ nextToken' = nextToken + 1
          ELSE IF RetryAgain(AxiosError(resp), r.retry)
          THEN /\ req' = [req EXCEPT ![p].retry = @ + 1, ![p].upstreamCalls = @ + 1]
               /\ ret' = NoRet
               /\ UNCHANGED nextToken
          ELSE /\ done([kind |-> "throw",
                        thrown |-> RefreshFailure(
                            createTrueLayerError("Failed to refresh TrueLayer tokens",
                                                 AxiosError(resp)))])
               /\ UNCHANGED nextToken
    /\ UNCHANGED <<clock, trueLayer, commitLog, calls>>
    /\ UNCHANGED otherThanTokens

InitEnsureFresh ==
    /\ clock = 0
    /\ trueLayer \in [Users -> StoredConnections]
    /\ nextToken = 1
    /\ commitLog = <<>>
    /\ tokenCache = EmptyCache
    /\ cacheLog = <<>>
    /\ InitLedger(0)
    /\ req = [p \in Procs |-> Idle]
    /\ outcome = <<>>

NextEnsureFresh ==
    \/ \E p \in Procs, u \in Users : EnsureFreshStart(p, u)
    \/ \E p \in Procs, resp \in TokenResponses : EnsureFreshRefresh(p, resp)
    \/ TickClock

SpecEnsureFresh == InitEnsureFresh /\ [][NextEnsureFresh]_vars

----------------------------------------------------------------------------
(* TrueLayerService: the service token cache (getAccessToken) and the      *)
(* response interceptor (handleApiError) of its axios instance             *)

\* the 30 s buffer of isTokenValid, in seconds
SAFETY_MARGIN == 30

\* isTokenValid: token && expiresAt && expiresAt > Date.now() + 30000
isTokenValidNoBuffer(cache, t) ==
    /\ cache.token # NoToken
    /\ cache.expiresAt # NULL /\ cache.expiresAt # 0
    /\ cache.expiresAt > t
isTokenValid(cache, t) ==
    /\ cache.token # NoToken
    /\ cache.expiresAt # NULL /\ cache.expiresAt # 0
    /\ cache.expiresAt > t + SAFETY_MARGIN

\* what the token endpoint can answer to the client-credentials grant
ServiceExpiresIn == {30, 130}
ServiceResponses ==
    [status : {200}, expires_in : ServiceExpiresIn] \cup [status : ErrorStatuses]
        \cup {NoResponse}

\* config._retry of a request when it is first sent: callers of this.api do
\* not set it (undefined); the unit tests of handleApiError start it at 0
InitialRetry == {NULL, 0}

\* this.tokenCache = { token, expiresAt }: the whole record is replaced
CacheWriteTokenOnly(cache, token, expiresAt) ==
    [cache EXCEPT !.token = token, !.expiresAt = IF @ = NULL THEN expiresAt ELSE @]
CacheWrite(cache, token, expiresAt) == [token |-> token, expiresAt |-> expiresAt]

\* handleApiError clears the token cache on a 401
ClearsCacheNever(error) == error.response = 401 /\ error.response = NULL
ClearsCache(error) == error.response = 401

\* a delay growing by two seconds per re-send
BackoffLinear(attempt) == 2 * attempt * 1000

\* Math.pow(2, axiosConfig._retry) * 1000, in milliseconds
Backoff(attempt) == (2 ^ attempt) * 1000

\* handleApiError(error) for an error whose config._retry is retry: the
\* request is sent again with _retry + 1, or the cache is cleared on a 401
\* and the error is thrown
handleApiError(error, retry) ==
    IF RetryAgain(error, retry)
    THEN [resend |-> TRUE, retry |-> retry + 1, clear |-> FALSE, delay |-> Backoff(retry + 1)]
    ELSE [resend |-> FALSE, retry |-> retry, clear |-> ClearsCache(error), delay |-> 0]

\* the cache and its log after handleApiError has run
AfterError(h) ==
    /\ tokenCache' = IF h.clear THEN EmptyCache ELSE tokenCache
    /\ cacheLog' = IF h.clear THEN Append(cacheLog, EmptyCache) ELSE cacheLog

Sent(p, op) == req[p].op = op /\ req[p].pc = "sent"

StartService(p) ==
    /\ req[p] = Idle
    /\ \A q \in 1 .. (p - 1) : req[q] # Idle
    /\ calls < MaxServiceCalls
    /\ calls' = calls + 1

\* getAccessToken up to the first await
GetAccessTokenStart(p) ==
    /\ StartService(p)
    /\ IF isTokenValid(tokenCache, clock)
       THEN /\ ret' = [op |-> "getAccessToken", ok |-> TRUE, token |-> tokenCache.token,
                       attempts |-> 0, answers |-> <<>>, at |-> clock,
                       cache |-> tokenCache]
            /\ req' = req
       ELSE /\ req' = [req EXCEPT ![p] =
                          [op |-> "getAccessToken", pc |-> "sent", retry0 |-> NULL,
                           retry |-> NULL, attempts |-> 1, answers |-> <<>>,
                           at |-> clock, cache |-> tokenCache]]
            /\ ret' = NoRet
    /\ UNCHANGED <<clock, nextToken, tokenCache, cacheLog>>
    /\ UNCHANGED otherThanService

\* the token endpoint answers the attempt in flight: the response is cached
\* and returned, or handleApiError runs and getAccessToken wraps what it
\* throws
GetAccessTokenAnswer(p, resp) ==
    /\ Sent(p, "getAccessToken")
    /\ resp.status = 200 => nextToken <= MaxTokens
    /\ LET r == req[p]
           answers == Append(r.answers, resp.status)
           h == handleApiError(AxiosError(resp), r.retry)
       IN IF resp.status = 200
          THEN LET token == <<"service", nextToken>>
                   written == CacheWrite(tokenCache, token, clock + resp.expires_in)
               IN /\ tokenCache' = written
                  /\ cacheLog' = Append(cacheLog, [token |-> token,
                                                   expiresAt |-> clock + resp.expires_in])
                  /\ nextToken' = nextToken + 1
                  /\ ret' = [op |-> "getAccessToken", ok |-> TRUE, token |-> written.token,
                             attempts |-> r.attempts, answers |-> answers, at |-> r.at,
                             cache |-> r.cache]
                  /\ req' = [req EXCEPT ![p] = Idle]
          ELSE /\ AfterError(h)
               /\ UNCHANGED nextToken
               /\ IF h.resend
                  THEN /\ req' = [req EXCEPT ![p].retry = h.retry, ![p].attempts = @ + 1,
                                             ![p].answers = answers]
                       /\ ret' = NoRet
                  ELSE /\ ret' = [op |-> "getAccessToken", ok |-> FALSE,
                                  message |-> "Failed to obtain TrueLayer access token",
                                  attempts |-> r.attempts, answers |-> answers,
                                  retry0 |-> r.retry0, retry |-> h.retry, at |-> r.at,
                                  cache |-> r.cache]
                       /\ req' = [req EXCEPT ![p] = Idle]
    /\ UNCHANGED <<clock, calls>>
    /\ UNCHANGED otherThanService

\* whose token a request through this.api carries: the user's access token
\* (getAccounts, getTransactions) or the cached service token
\* (makeAuthenticatedRequest)
Bearers == {"user", "service"}

\* a request sent through this.api with config._retry = retry0 and the
\* token of bearer in its Authorization header
ApiRequestStart(p, retry0, bearer) ==
    /\ StartService(p)
    /\ req' = [req EXCEPT ![p] =
                  [op |-> "request", pc |-> "sent", retry0 |-> retry0, retry |-> retry0,
                   attempts |-> 1, answers |-> <<>>, at |-> clock, cache |-> tokenCache,
                   delays |-> <<>>, bearer |-> bearer]]
    /\ ret' = NoRet
    /\ UNCHANGED <<clock, nextToken, tokenCache, cacheLog>>
    /\ UNCHANGED otherThanService

\* the provider answers the attempt in flight: the response is returned, or
\* handleApiError runs
ApiRequestAnswer(p, resp) ==
    /\ Sent(p, "request")
    /\ LET r == req[p]
           answers == Append(r.answers, resp.status)
           h == handleApiError(AxiosError(resp), r.retry)
       IN IF resp.status = 200
          THEN /\ ret' = [op |-> "request", ok |-> TRUE, attempts |-> r.attempts,
                          answers |-> answers, retry0 |-> r.retry0, retry |-> r.retry]
               /\ req' = [req EXCEPT ![p] = Idle]
               /\ UNCHANGED <<tokenCache, cacheLog>>
          ELSE /\ AfterError(h)
               /\ IF h.resend
                  THEN /\ req' = [req EXCEPT ![p].retry = h.retry, ![p].attempts = @ + 1,
                                             ![p].answers = answers,
                                             ![p].delays = Append(@, h.delay)]
                       /\ ret' = NoRet
                  ELSE /\ ret' = [op |-> "request", ok |-> FALSE,
                                  thrown |-> AxiosError(resp), attempts |-> r.attempts,
                                  answers |-> answers, retry0 |-> r.retry0,
                                  retry |-> h.retry]
                       /\ req' = [req EXCEPT ![p] = Idle]
    /\ UNCHANGED <<clock, nextToken, calls>>
    /\ UNCHANGED otherThanService

\* time passes between the steps of the service
TickService ==
    /\ clock + TickSeconds <= MaxServiceTicks * TickSeconds
    /\ clock' = clock + TickSeconds
    /\ ret' = NoRet
    /\ UNCHANGED <<nextToken, tokenCache, cacheLog, calls, req>>
    /\ UNCHANGED otherThanService

InitService ==
    /\ InitConnection
    /\ InitLedger(0)
    /\ req = [p \in Procs |-> Idle]
    /\ outcome = <<>>

\* the cache under getAccessToken calls and the requests of the callers of
\* this.api, none of which sets config._retry
NextService ==
    \/ \E p \in Procs : GetAccessTokenStart(p)
    \/ \E p \in Procs, resp \in ServiceResponses : GetAccessTokenAnswer(p, resp)
    \/ \E p \in Procs, bearer \in Bearers : ApiRequestStart(p, NULL, bearer)
    \/ \E p \in Procs, resp \in DataResponses : ApiRequestAnswer(p, resp)
    \/ TickService

SpecService == InitService /\ [][NextService]_vars

\* the interceptor alone, for requests with and without config._retry (it
\* does not read the Authorization header)
NextRetry ==
    \/ \E p \in Procs, retry0 \in InitialRetry : ApiRequestStart(p, retry0, "service")
    \/ \E p \in Procs, resp \in DataResponses : ApiRequestAnswer(p, resp)

SpecRetry == InitService /\ [][NextRetry]_vars

\* every attempt in flight is answered, by a response or by an axios error
\* (the timeout of the axios instance)
SpecRetryFair ==
    SpecRetry /\ \A p \in Procs : WF_vars(\E resp \in DataResponses : ApiRequestAnswer(p, resp))

----------------------------------------------------------------------------
(* C1: in every reachable state, under any interleaving of createKey,       *)
(* deleteKey, deactivateApiKey, verifyApiKey and cleanupExpiredKeys, a user *)
(* holds at most 5 keys with isActive = true.                               *)
MaxActiveKeys == \A u \in Users : Cardinality(ActiveKeys(u)) <= MAX_KEYS

\* a createKey that passed the count check was refused by the conditional
\* write while the user holds 5 active keys
WitnessMaxActiveKeys ==
    /\ ret.op = "createKey"
    /\ ret.status = 500
    /\ \E u \in Users : Cardinality(ActiveKeys(u)) = MAX_KEYS

(* C2: when the concurrent createKey calls on a fresh user have all been    *)
(* answered, exactly 5 succeeded and all the others failed with the         *)
(* limit-exceeded error, those that lost at the conditional write included. *)
Answered == \A i \in Issuers : outcome[i] \notin {"none", "pending"}
ConcurrentIssueLimitExceeded ==
    Answered =>
        /\ Cardinality({i \in Issuers : outcome[i] = "CREATED"}) = MAX_KEYS
        /\ Cardinality({i \in Issuers : outcome[i] = "KEY_LIMIT_REACHED"})
               = NumIssuers - MAX_KEYS

(* C3: no persisted key record holds the plaintext secret of an issued key. *)
(* When createKey answers 201 with the secret, no stored record of any user *)
(* holds that secret.                                                       *)
PlaintextNeverPersisted ==
    (ret.op = "createKey" /\ ret.status = 201) =>
        \A u \in Users : \A i \in Indices(apiKeys[u]) : apiKeys[u][i].key # ret.key

(* C4: a verifyApiKey call presenting the secret of an issued key, made     *)
(* before that key is revoked, reaped or expired, returns true; one made    *)
(* after a revoke of that key has succeeded returns false.                  *)
VerifyFollowsIssueAndRevoke ==
    ret.op = "verifyApiKey" =>
        /\ ret.call.usable => ret.result
        /\ ret.call.revoked => ~ret.result

(* C5: verifyApiKey never returns true on the strength of a key whose       *)
(* expiresAt is earlier than the time of the call.                          *)
VerifyRejectsExpired ==
    (ret.op = "verifyApiKey" /\ ret.result) => ~(ret.matched.expiresAt < ret.call.at)

(* C6: when exactly two updateTrueLayerTokens calls for a user have started *)
(* from the same loaded trueLayerTokenVersion and both have returned, one   *)
(* of them succeeded and the other failed with the concurrent-modification  *)
(* error.                                                                   *)
Results(v) == [i \in DOMAIN commitLog[v] |-> commitLog[v][i].result]
OneOkOneConflict(v) ==
    Results(v) \in {<<"ok", "conflict">>, <<"conflict", "ok">>}
TwoCommitsOneWinner ==
    \A v \in DOMAIN commitLog : Len(commitLog[v]) = 2 => OneOkOneConflict(v)

(* C6 as amended: the same, for two calls that both carry a token response  *)
(* whose expires_in puts the expiry in the future.                          *)
TwoValidCommitsOneWinner ==
    \A v \in DOMAIN commitLog :
        (Len(commitLog[v]) = 2 /\ \A i \in 1 .. 2 : commitLog[v][i].expires_in > 0)
            => OneOkOneConflict(v)
WitnessTwoValidCommits ==
    \E v \in DOMAIN commitLog :
        /\ Len(commitLog[v]) = 2
        /\ \A i \in 1 .. 2 : commitLog[v][i].expires_in > 0
        /\ "commit" \in DOMAIN ret /\ ret.commit = "conflict" /\ ret.tokenVersion = v

(* C7: trueLayerTokenVersion never decreases; a successful                  *)
(* updateTrueLayerTokens increases it by exactly 1 and succeeds only if the *)
(* stored version equals the version the caller loaded; a failed one leaves *)
(* it unchanged; nothing else changes it.                                   *)
VersionStep ==
    \A u \in Users :
        LET old == trueLayer[u].tokenVersion
            new == trueLayer'[u].tokenVersion
            committed == "commit" \in DOMAIN ret' /\ calls' = calls
        IN /\ new >= old
           /\ (committed /\ ret'.commit = "ok") => (new = old + 1 /\ ret'.tokenVersion = old)
           /\ (committed /\ ret'.commit # "ok") => new = old
           /\ ~committed => new = old
TokenVersionMonotonic == [][VersionStep]_vars
WitnessVersionAfterFailure ==
    /\ "commit" \in DOMAIN ret /\ ret.commit = "invalid"
    /\ \E u \in Users : trueLayer[u].tokenVersion = 2

(* C8: in every reachable state the access token, the refresh token and the *)
(* expiry of a user are all present with trueLayerConnected = true, or all  *)
(* absent with trueLayerConnected = false.                                  *)
ConnectionAllOrNothing ==
    \A u \in Users :
        LET c == trueLayer[u]
        IN \/ /\ c.accessToken # NoToken /\ c.refreshToken # NoToken
              /\ c.tokenExpiresAt # NULL /\ c.connected
           \/ /\ c.accessToken = NoToken /\ c.refreshToken = NoToken
              /\ c.tokenExpiresAt = NULL /\ ~c.connected
WitnessConnectionReplaced ==
    /\ ret.op = "commit" /\ ret.commit = "ok"
    /\ \E u \in Users : trueLayer[u].connected /\ trueLayer[u].tokenVersion = 2

(* C9: when validateAndRefreshTokens returns for a user whose stored expiry *)
(* was more than five minutes after the time of the call, it made no        *)
(* upstream call and returned the stored access and refresh token; when the *)
(* expiry was at most five minutes after it and the refresh grant was       *)
(* answered successfully, it made exactly one upstream call.                *)
Returned(p) == req[p].op = "getAccounts" /\ req[p].pc = "update"
FreshOrOneRefresh ==
    \A p \in Procs :
        Returned(p) =>
            LET r == req[p]
            IN IF r.loaded.tokenExpiresAt > r.at + FIVE_MINUTES
               THEN /\ r.upstreamCalls = 0
                    /\ r.tokens.access_token = r.loaded.accessToken
                    /\ r.tokens.refresh_token = r.loaded.refreshToken
               ELSE r.upstreamCalls = 1
WitnessRefreshAtFiveMinutes ==
    \E p \in Procs :
        /\ Returned(p)
        /\ req[p].loaded.tokenExpiresAt = req[p].at + FIVE_MINUTES
        /\ req[p].upstreamCalls = 1
        /\ \E q \in Procs : Returned(q) /\ req[q].upstreamCalls = 0

(* C10: when the refresh grant is answered 400, validateAndRefreshTokens    *)
(* fails with the invalid-refresh-token error; when it is answered 401, it  *)
(* fails with the connection-expired error; only other failures surface as  *)
(* the generic refresh failure.                                             *)
RefreshErrorKinds ==
    (ret.op = "getAccounts" /\ ret.stage = "refresh") =>
        ret.thrown.message =
            IF ret.upstream = 400 THEN "Invalid refresh token"
            ELSE IF ret.upstream = 401
                 THEN "TrueLayer connection expired. Please reconnect your account."
                 ELSE "Failed to refresh TrueLayer tokens"

(* C11: validateAndRefreshTokens fails with the not-connected error when    *)
(* the access or the refresh token is not stored, and with the invalid-     *)
(* expiration error when the stored expiry is null, absent or unparseable;  *)
(* in both cases it made no upstream call and the stored connection is      *)
(* unchanged.                                                               *)
TokensMissing(conn) == conn.accessToken = NoToken \/ conn.refreshToken = NoToken
ExpiryMissing(conn) == conn.tokenExpiresAt \in {NULL, UNDEFINED, INVALID_DATE}
Threw(message) ==
    /\ ret.result.kind = "throw" /\ ret.result.thrown.message = message
    /\ ret.upstreamCalls = 0
    /\ trueLayer[ret.user] = ret.loaded
EnsureFreshRejectsBadState ==
    ret.op = "ensureFresh" =>
        /\ TokensMissing(ret.loaded) => Threw("User not properly connected to TrueLayer")
        /\ (~TokensMissing(ret.loaded) /\ ExpiryMissing(ret.loaded))
               => Threw("Invalid token expiration date")

(* C12: when getAccounts has failed because the refresh grant was answered  *)
(* 401, the stored connection of that user shows trueLayerConnected =       *)
(* false.                                                                   *)
DisconnectedAfterRefresh401 ==
    (ret.op = "getAccounts" /\ ret.stage = "refresh" /\ ret.upstream = 401)
        => ~trueLayer[ret.user].connected

(* C13: with retryAttempts = 3, a request whose first three attempts were   *)
(* answered 500 has failed, and no fourth attempt of it is sent.            *)
FirstThreeFailed(answers) ==
    Len(answers) >= 3 /\ \A i \in 1 .. 3 : answers[i] = 500
NoFourthAttempt ==
    /\ \A p \in Procs : Sent(p, "request") => ~FirstThreeFailed(req[p].answers)
    /\ (ret.op = "request" /\ FirstThreeFailed(ret.answers))
           => (~ret.ok /\ Len(ret.answers) = 3)

(* C14: a request is sent again only after a 5xx response or no response;   *)
(* after a 4xx response it is not sent again, it fails, and its retry       *)
(* counter is the one it had before that response.                          *)
ServerErrorOrNone(status) == status = 0 \/ status >= 500
ClientError(status) == status >= 400 /\ status < 500
RetryBefore(r) == IF r.retry0 = NULL THEN NULL ELSE r.retry0 + Len(r.answers) - 1
ResendOnlyAfterServerError ==
    /\ \A p \in Procs :
           Sent(p, "request") =>
               \A i \in 1 .. Len(req[p].answers) : ServerErrorOrNone(req[p].answers[i])
    /\ ret.op = "request" =>
           /\ \A i \in 1 .. (Len(ret.answers) - 1) : ServerErrorOrNone(ret.answers[i])
           /\ ClientError(ret.answers[Len(ret.answers)])
                  => (~ret.ok /\ ret.retry = RetryBefore(ret))
WitnessClientErrorAfterResend ==
    /\ ret.op = "request" /\ ret.answers = <<500, 400>>
    /\ ret.attempts = 2 /\ ret.retry = 1

(* C15: getAccessToken returns the cached token without an upstream call    *)
(* exactly when a token is cached and now < expiresAt - 30 s; in every      *)
(* other case it sends the grant upstream.                                  *)
CachedAndFresh(cache, t) ==
    cache.token # NoToken /\ cache.expiresAt # NULL /\ t < cache.expiresAt - 30
CachedTokenOnlyWhileFresh ==
    /\ \A p \in Procs :
           Sent(p, "getAccessToken") => ~CachedAndFresh(req[p].cache, req[p].at)
    /\ ret.op = "getAccessToken" =>
           IF CachedAndFresh(ret.cache, ret.at)
           THEN ret.ok /\ ret.attempts = 0 /\ ret.token = ret.cache.token
           ELSE ret.attempts >= 1
WitnessAcquiredAtMargin ==
    /\ ret.op = "getAccessToken" /\ ret.ok /\ ret.attempts = 1
    /\ ret.cache.token # NoToken /\ ret.cache.expiresAt = ret.at + 30

(* C16: when a call has ended with a 401 response, the cached token and its *)
(* expiry are both cleared, the call has failed (a request with the 401     *)
(* error itself), and no call in flight has been sent again after a 401.    *)
EndedWith401 ==
    /\ ret.op \in {"request", "getAccessToken"}
    /\ ret.answers # <<>> /\ ret.answers[Len(ret.answers)] = 401
CacheClearedOn401 ==
    /\ \A p \in Procs, op \in {"request", "getAccessToken"} :
           Sent(p, op) => \A i \in 1 .. Len(req[p].answers) : req[p].answers[i] # 401
    /\ EndedWith401 =>
           /\ tokenCache = EmptyCache
           /\ ~isTokenValid(tokenCache, clock)
           /\ ~ret.ok
           /\ ret.op = "request" => ret.thrown.response = 401
WitnessClearedCachedToken ==
    /\ EndedWith401 /\ ret.op = "request"
    /\ Len(cacheLog) >= 2 /\ cacheLog[Len(cacheLog) - 1].token # NoToken

(* C17: the token cache is always empty or the token and the expiry of one  *)
(* successful response; when no call is in flight it is the last record     *)
(* written.                                                                 *)
CacheIsOneResponse ==
    /\ \/ tokenCache = EmptyCache
       \/ \E i \in 1 .. Len(cacheLog) :
              cacheLog[i].token # NoToken /\ tokenCache = cacheLog[i]
    /\ (\A p \in Procs : req[p] = Idle)
           => tokenCache = IF cacheLog = <<>> THEN EmptyCache
                           ELSE cacheLog[Len(cacheLog)]
WitnessCacheRewritten ==
    /\ Len(cacheLog) = 3 /\ cacheLog[2] = EmptyCache
    /\ tokenCache.token # NoToken /\ tokenCache # cacheLog[1]
    /\ \A p \in Procs : req[p] = Idle

----------------------------------------------------------------------------
\* C18: a deleteKey call answers at once, without writing, exactly when the
\* user's array has no key of that id (404 API_KEY_NOT_FOUND, also when the id
\* is that of another user's key), or that key is inactive (400
\* KEY_ALREADY_INACTIVE), or that key is active and its expiresAt has passed
\* (400 KEY_EXPIRED); such a step changes no key and no counter of any user.
Owned(u, keyId) == {i \in Indices(apiKeys[u]) : apiKeys[u][i].id = keyId}

ExpectedRefusal(u, keyId) ==
    IF Owned(u, keyId) = {} THEN "API_KEY_NOT_FOUND"
    ELSE LET k == apiKeys[u][CHOOSE i \in Owned(u, keyId) : TRUE]
         IN IF ~k.isActive THEN "KEY_ALREADY_INACTIVE"
            ELSE IF k.expiresAt < now THEN "KEY_EXPIRED"
            ELSE ""

RevokeRefusals ==
    /\ (calls' = calls + 1 /\ ret'.op = "deleteKey") =>
           /\ ret'.error # ""
           /\ ret'.error = ExpectedRefusal(ret'.user, ret'.keyId)
           /\ ret'.status = (IF ret'.error = "API_KEY_NOT_FOUND" THEN 404 ELSE 400)
           /\ UNCHANGED <<apiKeys, apiKeyCount, docVersion>>
    /\ \A p \in Procs :
           (req[p] = Idle /\ req'[p].op = "deleteKey") =>
               ExpectedRefusal(req'[p].user, req'[p].keyId) = ""

RevokeRefusedWithoutWrite == [][RevokeRefusals]_vars

\* a deleteKey of one user was answered NotFound for the id of a key that
\* another user holds
WitnessRevokeForeignKey ==
    /\ ret.op = "deleteKey"
    /\ ret.status = 404
    /\ ret.error = "API_KEY_NOT_FOUND"
    /\ \E u \in DOMAIN apiKeys \ {ret.user} : ret.keyId \in IdsOf(apiKeys[u])

----------------------------------------------------------------------------
\* C19: a revoke of a key succeeds only if no revoke of that key has succeeded
\* before (of two calls for the same key exactly one succeeds), and after a
\* successful revoke the key is not stored as active.
RevokeSucceeded ==
    \/ ret.op = "deactivateApiKey" /\ ret.ok
    \/ ret.op = "deleteKey" /\ ret.status = 200

RevokeSucceedsOnce ==
    RevokeSucceeded =>
        /\ ~ret.revokedBefore
        /\ \A u \in DOMAIN apiKeys : \A i \in Indices(apiKeys[u]) :
               apiKeys[u][i].id = ret.keyId => ~apiKeys[u][i].isActive

----------------------------------------------------------------------------
\* C20: the list returned by getApiKeys holds every key issued to the user
\* that was revoked and has not been reaped, with isActive = false.
ListShowsRevokedKeys ==
    ret.op = "getApiKeys" =>
        \A id \in IssuedIds :
            (keyLog[id].revoked /\ ~keyLog[id].reaped) =>
                \E j \in 1 .. Len(ret.keys) :
                    ret.keys[j].id = id /\ ~ret.keys[j].isActive

----------------------------------------------------------------------------
\* C21: no step changes isActive of a stored key from false to true.
StaysInactive ==
    \A u \in DOMAIN apiKeys : \A i \in Indices(apiKeys[u]) :
        ~apiKeys[u][i].isActive =>
            \A j \in Indices(apiKeys'[u]) :
                apiKeys'[u][j].id = apiKeys[u][i].id => ~apiKeys'[u][j].isActive

NoReactivation == [][StaysInactive]_vars

----------------------------------------------------------------------------
\* C22: when cleanupExpiredKeys has completed, the apiKeyCount of every user
\* equals the number of keys stored for that user.
CountResyncedAfterCleanup ==
    ret.op = "cleanupExpiredKeys" =>
        \A u \in DOMAIN apiKeys : apiKeyCount[u] = Len(apiKeys[u])

----------------------------------------------------------------------------
\* C23: a step of createKey changes the key collection of a user exactly
\* when it changes that user's apiKeyCount; when it does, the call answers
\* 201, one key was appended and the count went up by one; a createKey that
\* answers with an error has changed neither.
IssueStep ==
    \/ \E p \in Procs : req[p].op = "createKey" /\ req'[p] = Idle
    \/ \E p \in Procs : req[p] = Idle /\ req'[p].op = "createKey"
    \/ calls' = calls + 1 /\ ret'.op = "createKey"

IssueWrites ==
    IssueStep =>
        \A u \in DOMAIN apiKeys :
            /\ (apiKeys'[u] # apiKeys[u]) <=> (apiKeyCount'[u] # apiKeyCount[u])
            /\ (apiKeys'[u] # apiKeys[u]) =>
                   /\ ret'.op = "createKey" /\ ret'.status = 201
                   /\ Len(apiKeys'[u]) = Len(apiKeys[u]) + 1
                   /\ SubSeq(apiKeys'[u], 1, Len(apiKeys[u])) = apiKeys[u]
                   /\ apiKeyCount'[u] = apiKeyCount[u] + 1

----------------------------------------------------------------------------
(* SpecVerifyCache: ApiKeyService.verifyKey over its LRU cache             *)
(* (services/apiKeyService.js); strings are sequences of characters, the   *)
(* capacity of the cache is CacheCapacity instead of 1000                  *)

\* secrets a caller can present, with and without the separator character
CandidateKeys == {<<"v", "k">>, <<"v", ":">>, <<"v">>}

\* the hashes stored for two of the secrets, under two salts each
StoredHashes == {hashKey(k, n) : k \in {<<"v", "k">>, <<"v", ":">>}, n \in 1 .. 2}

\* a bcrypt hash as a string: "$2a$", the salt, the digest
HashString(hashedKey) == <<"$2a$", ToString(hashedKey.salt), ToString(hashedKey.digest)>>

\* the cache key without the hash
CacheKeyOfSecretOnly(key, hashedKey) == key \o <<":">>

\* `${key}:${hashedKey}`
CacheKey(key, hashedKey) == key \o <<":">> \o HashString(hashedKey)

\* Map.has
CacheHas(cache, k) == \E i \in 1 .. Len(cache) : cache[i].key = k

\* Map.delete
CacheDelete(cache, k) == SelectSeq(cache, LAMBDA e : e.key # k)

\* a get that leaves the entry where it is
CacheGetInPlace(cache, k) ==
    LET e == cache[CHOOSE i \in 1 .. Len(cache) : cache[i].key = k]
    IN [value |-> e.value, cache |-> cache]

\* LRUCache.get: the value, the entry moved to the most recent position
CacheGet(cache, k) ==
    LET e == cache[CHOOSE i \in 1 .. Len(cache) : cache[i].key = k]
    IN [value |-> e.value, cache |-> Append(CacheDelete(cache, k), e)]

\* LRUCache.put: replace the entry, or evict the least recently used one
\* when the cache is full, then insert at the most recent position
CachePut(cache, k, v) ==
    LET kept == IF CacheHas(cache, k) THEN CacheDelete(cache, k)
                ELSE IF Len(cache) >= CacheCapacity THEN Tail(cache)
                ELSE cache
    IN Append(kept, [key |-> k, value |-> v])

\* verifyKey(key, hashedKey)
VerifyKey(key, hashedKey) ==
    /\ calls < MaxVerifyCalls
    /\ calls' = calls + 1
    /\ useLog' = Append(useLog, CacheKey(key, hashedKey))
    /\ LET cacheKey == CacheKey(key, hashedKey)
       IN IF CacheHas(verificationCache, cacheKey)
          THEN /\ verificationCache' = CacheGet(verificationCache, cacheKey).cache
               /\ ret' = [op |-> "verifyKey", key |-> key, hashedKey |-> hashedKey,
                          cached |-> TRUE,
                          result |-> CacheGet(verificationCache, cacheKey).value]
          ELSE /\ verificationCache' =
                      CachePut(verificationCache, cacheKey, bcryptCompare(key, hashedKey))
               /\ ret' = [op |-> "verifyKey", key |-> key, hashedKey |-> hashedKey,
                          cached |-> FALSE, result |-> bcryptCompare(key, hashedKey)]
    /\ UNCHANGED <<now, apiKeys, apiKeyCount, docVersion, nextKeyId, req, keyLog, blacklist,
                   sessions, usedRefresh, responseCache>>
    /\ UNCHANGED <<outcome, tokenVars>>

\* clearCache()
ClearCache ==
    /\ verificationCache # <<>>
    /\ verificationCache' = <<>>
    /\ ret' = NoRet
    /\ UNCHANGED <<now, apiKeys, apiKeyCount, docVersion, nextKeyId, req, keyLog, blacklist,
                   sessions, calls, useLog, usedRefresh, responseCache>>
    /\ UNCHANGED <<outcome, tokenVars>>

InitVerifyCache ==
    /\ InitLedger(0)
    /\ req = [p \in Procs |-> Idle]
    /\ outcome = <<>>
    /\ InitConnection

NextVerifyCache ==
    \/ \E key \in CandidateKeys, hashedKey \in StoredHashes : VerifyKey(key, hashedKey)
    \/ ClearCache

SpecVerifyCache == InitVerifyCache /\ [][NextVerifyCache]_vars

----------------------------------------------------------------------------
\* C24: whatever the cache holds, verifyKey answers what bcrypt.compare
\* answers for the secret and the hash it was given.
CachedVerifyEqualsCompare ==
    ret.op = "verifyKey" => ret.result = bcryptCompare(ret.key, ret.hashedKey)

\* a positive answer taken from the cache when it is full
WitnessAnswerFromFullCache ==
    /\ ret.op = "verifyKey" /\ ret.cached /\ ret.result
    /\ calls = MaxVerifyCalls
    /\ Len(verificationCache) = CacheCapacity

----------------------------------------------------------------------------
(* SpecMask: generateKey and maskKey on strings (services/apiKeyService.js) *)
(* the body of a key has KeyBodyLen characters instead of 43               *)

\* characters of the base64 encoding of random bytes
Base64Chars == {"a", "+", "/"}

\* .replace(/\+/g, "-").replace(/\//g, "_")
UrlSafe(c) == IF c = "+" THEN "-" ELSE IF c = "/" THEN "_" ELSE c

\* `vk_${key}`
KeyString(bytes) == <<"v", "k", "_">> \o [i \in 1 .. Len(bytes) |-> UrlSafe(bytes[i])]

\* String.prototype.split("_")
RECURSIVE Split(_)
Split(str) ==
    LET at == {i \in 1 .. Len(str) : str[i] = "_"}
    IN IF at = {} THEN <<str>>
       ELSE LET i == CHOOSE j \in at : \A k \in at : j <= k
            IN <<SubSeq(str, 1, i - 1)>> \o Split(SubSeq(str, i + 1, Len(str)))

\* "*".repeat(35)
Filler == [i \in 1 .. MASK_FILLER |-> "*"]

\* value.substring(0, 4) and value.slice(-4)
FirstChars(value) == SubSeq(value, 1, IF Len(value) < MASK_SHOWN THEN Len(value) ELSE MASK_SHOWN)
LastChars(value) ==
    SubSeq(value, IF Len(value) < MASK_SHOWN THEN 1 ELSE Len(value) - MASK_SHOWN + 1, Len(value))

\* ApiKeyService.maskKey
maskKey(key) ==
    LET parts == Split(key)
    IN IF Len(parts) # 2 THEN <<>>
       ELSE parts[1] \o <<"_">> \o FirstChars(parts[2]) \o Filler \o LastChars(parts[2])

\* generateKey: a key built from fresh random bytes
GenerateKeyString(bytes) ==
    /\ ret = NoRet
    /\ ret' = [op |-> "generateKey", key |-> KeyString(bytes)]
    /\ UNCHANGED <<now, apiKeys, apiKeyCount, docVersion, nextKeyId, req, keyLog, calls>>
    /\ UNCHANGED <<outcome, tokenVars, sessionVars>>

\* getApiKeys: the key field shown for a stored key
MaskStoredKey ==
    /\ ret.op = "generateKey"
    /\ ret' = [op |-> "maskKey", key |-> ret.key, masked |-> maskKey(ret.key)]
    /\ UNCHANGED <<now, apiKeys, apiKeyCount, docVersion, nextKeyId, req, keyLog, calls>>
    /\ UNCHANGED <<outcome, tokenVars, sessionVars>>

InitMask ==
    /\ InitLedger(0)
    /\ req = [p \in Procs |-> Idle]
    /\ outcome = <<>>
    /\ InitConnection

NextMask ==
    \/ \E bytes \in [1 .. KeyBodyLen -> Base64Chars] : GenerateKeyString(bytes)
    \/ MaskStoredKey

SpecMask == InitMask /\ [][NextMask]_vars

----------------------------------------------------------------------------
\* C25: for every key generateKey can return, the masked key is the prefix,
\* the first 4 characters of the body, the filler and the last 4 characters
\* of the body, and differs from the key.
MaskShowsEnds ==
    ret.op = "maskKey" =>
        LET value == SubSeq(ret.key, 4, Len(ret.key))
        IN /\ ret.masked = <<"v", "k", "_">> \o SubSeq(value, 1, MASK_SHOWN) \o Filler
                               \o SubSeq(value, Len(value) - MASK_SHOWN + 1, Len(value))
           /\ ret.masked # ret.key

----------------------------------------------------------------------------
\* C26: connect answers INVALID_TOKEN_EXPIRATION, writing nothing, when the
\* expiry computed from the token response is not after the present time;
\* it goes on to updateTrueLayerTokens only with a response whose expiry is
\* in the future; it writes the connection only in the step that answers
\* 200, after which the user is connected with the returned token pair.
ConnectStep ==
    \/ ret'.op = "connect"
    \/ \E p \in Procs : req'[p].op = "connect" /\ req'[p] # req[p]

ConnectWrites ==
    ConnectStep =>
        /\ (ret'.op = "connect" /\ ret'.error = "INVALID_TOKEN_EXPIRATION") =>
               /\ ret'.status = 400
               /\ ret'.expires_in <= 0
               /\ UNCHANGED trueLayer
        /\ \A p \in Procs :
               (req[p] = Idle /\ req'[p].op = "connect") => req'[p].tokens.expires_in > 0
        /\ trueLayer' # trueLayer => (ret'.op = "connect" /\ ret'.status = 200)
        /\ (ret'.op = "connect" /\ ret'.status = 200) =>
               /\ trueLayer'[ret'.user].connected
               /\ trueLayer'[ret'.user].accessToken = ret'.tokens.access_token
               /\ trueLayer'[ret'.user].refreshToken = ret'.tokens.refresh_token
               /\ trueLayer'[ret'.user].tokenExpiresAt > clock

ConnectValidatesExpiry == [][ConnectWrites]_vars

\* a connect rejected for its expiry while the user holds the connection an
\* earlier connect stored
WitnessConnectRejected ==
    /\ ret.op = "connect" /\ ret.error = "INVALID_TOKEN_EXPIRATION"
    /\ trueLayer[ret.user].connected

----------------------------------------------------------------------------
\* C27: the step in which updateTrueLayerTokens fails for concurrent
\* modification leaves the stored connection as it was, ends the request
\* that made the call, and answers that request with an error.
CommitConflict ==
    /\ "commit" \in DOMAIN ret'
    /\ ret'.commit = "conflict"

ConflictStep ==
    CommitConflict =>
        /\ UNCHANGED trueLayer
        /\ ret'.op \in {"connect", "getAccounts"}
        /\ ret'.status \in {409, 500}
        /\ \E p \in Procs :
               /\ req[p].op = ret'.op /\ req[p].pc = "update"
               /\ req'[p] = Idle
               /\ \A q \in Procs \ {p} : req'[q] = req[q]

ConflictWritesNothing == [][ConflictStep]_vars

\* a connect answered 409 after another rotation had replaced the tokens
WitnessConnectConflict ==
    /\ ret.op = "connect" /\ ret.status = 409
    /\ ret.commit = "conflict"
    /\ trueLayer[ret.user].tokenVersion > ret.tokenVersion
    /\ trueLayer[ret.user].accessToken # ret.tokens.access_token

----------------------------------------------------------------------------
\* C28: the write of a verifyApiKey that matched a key changes the lastUsed
\* of that key and nothing else in the stored key collection.
VerifyWrite ==
    \A p \in Procs :
        (req[p].op = "verifyApiKey" /\ req'[p] = Idle) =>
            LET u == req[p].user
                id == req[p].matched.id
            IN apiKeys'[u] =
                   [i \in DOMAIN apiKeys[u] |->
                       IF apiKeys[u][i].id = id
                       THEN [apiKeys[u][i] EXCEPT !.lastUsed = req[p].call.at]
                       ELSE apiKeys[u][i]]

VerifyWritesOnlyLastUsed == [][VerifyWrite]_vars

----------------------------------------------------------------------------
\* C29: a getAccounts request that found the stored access token fresh (it
\* made no refresh call) does not fail at its token update while the stored
\* token is still the one it loaded, that is, unless a connect or a refresh
\* has replaced the token in the meantime.
FreshRequestsAllSucceed ==
    (ret.op = "getAccounts" /\ ret.stage = "update" /\ ret.upstreamCalls = 0) =>
        trueLayer[ret.user].accessToken # ret.tokens.access_token

----------------------------------------------------------------------------
(* SpecSession: login, logout, refreshAccessToken (auth controller) and    *)
(* the JWT strategy; the clock counts seconds                              *)

\* the expiry logout gives the blacklist entry, were it the time of issue
BlacklistExpiryAtIssue(exp) == exp - ACCESS_TTL

\* expiresAt: new Date(decoded.exp * 1000)
BlacklistExpiry(exp) == exp

Blacklisted(jti) == \E e \in blacklist : e.token = jti

StartSession ==
    /\ calls < MaxSessionCalls
    /\ calls' = calls + 1

sessionFrame ==
    /\ UNCHANGED <<now, apiKeys, apiKeyCount, docVersion, nextKeyId, req, keyLog>>
    /\ UNCHANGED <<outcome, tokenVars, verificationCache, useLog, usedRefresh, responseCache>>

\* login: generateTokens signs an access and a refresh token with one jti
Login ==
    /\ StartSession
    /\ Len(sessions) < MaxSessions
    /\ sessions' = Append(sessions, [exp |-> clock + ACCESS_TTL,
                                     refreshExp |-> clock + REFRESH_TTL,
                                     loggedOut |-> FALSE])
    /\ ret' = [op |-> "login", status |-> 200, jti |-> Len(sessions) + 1]
    /\ UNCHANGED blacklist
    /\ sessionFrame

\* logout with the access token of session jti: jwt.decode does not verify,
\* TokenBlacklist.create fails on the unique index when the jti is present
Logout(jti) ==
    /\ StartSession
    /\ IF Blacklisted(jti)
       THEN /\ ret' = [op |-> "logout", status |-> 500, jti |-> jti]
            /\ UNCHANGED <<blacklist, sessions>>
       ELSE /\ blacklist' = blacklist \cup
                    {[token |-> jti, expiresAt |-> BlacklistExpiry(sessions[jti].exp)]}
            /\ sessions' = [sessions EXCEPT ![jti].loggedOut = TRUE]
            /\ ret' = [op |-> "logout", status |-> 200, jti |-> jti]
    /\ sessionFrame

\* refreshAccessToken with the refresh token of session jti
RefreshAccessToken(jti) ==
    /\ StartSession
    /\ IF clock >= sessions[jti].refreshExp
       THEN /\ ret' = [op |-> "refresh", status |-> 401, jti |-> jti,
                       message |-> "Refresh token has expired"]
            /\ UNCHANGED <<blacklist, sessions>>
       ELSE IF Blacklisted(jti)
       THEN /\ ret' = [op |-> "refresh", status |-> 401, jti |-> jti,
                       message |-> "Refresh token has been revoked"]
            /\ UNCHANGED <<blacklist, sessions>>
       ELSE /\ Len(sessions) < MaxSessions
            /\ sessions' = Append(sessions, [exp |-> clock + ACCESS_TTL,
                                             refreshExp |-> clock + REFRESH_TTL,
                                             loggedOut |-> FALSE])
            /\ blacklist' = blacklist \cup
                    {[token |-> jti, expiresAt |-> sessions[jti].refreshExp]}
            /\ ret' = [op |-> "refresh", status |-> 200, jti |-> Len(sessions) + 1,
                       message |-> ""]
    /\ sessionFrame

\* a request through authenticateJWT with the access token of session jti:
\* the expiry check of the strategy, then its verify callback
Authenticate(jti) ==
    /\ StartSession
    /\ ret' = [op |-> "authenticate", jti |-> jti, exp |-> sessions[jti].exp, at |-> clock,
               status |-> IF clock >= sessions[jti].exp \/ Blacklisted(jti) THEN 401 ELSE 200,
               message |-> IF clock >= sessions[jti].exp THEN "jwt expired"
                           ELSE IF Blacklisted(jti) THEN "Token has been revoked"
                           ELSE ""]
    /\ UNCHANGED <<blacklist, sessions>>
    /\ sessionFrame

\* the TTL index on expiresAt (expires: 0): the monitor removes an entry
\* some time after its expiresAt has passed
TtlExpire ==
    /\ \E e \in blacklist : e.expiresAt <= clock
    /\ blacklist' = {e \in blacklist : e.expiresAt > clock}
    /\ ret' = NoRet
    /\ UNCHANGED <<sessions, calls>>
    /\ sessionFrame

TickSession ==
    /\ clock + SessionTick <= MaxSessionTicks * SessionTick
    /\ clock' = clock + SessionTick
    /\ ret' = NoRet
    /\ UNCHANGED <<now, apiKeys, apiKeyCount, docVersion, nextKeyId, req, keyLog, calls>>
    /\ UNCHANGED <<outcome, trueLayer, nextToken, commitLog, tokenCache, cacheLog, sessionVars>>

InitSessions ==
    /\ InitLedger(0)
    /\ req = [p \in Procs |-> Idle]
    /\ outcome = <<>>
    /\ InitConnection

NextSession ==
    \/ Login
    \/ \E jti \in DOMAIN sessions : Logout(jti)
    \/ \E jti \in DOMAIN sessions : RefreshAccessToken(jti)
    \/ \E jti \in DOMAIN sessions : Authenticate(jti)
    \/ TtlExpire
    \/ TickSession

SpecSession == InitSessions /\ [][NextSession]_vars

----------------------------------------------------------------------------
\* C30: a request carrying the access token of a session whose jti a logout
\* has blacklisted is answered 401, and as long as the token has not expired
\* the reason given is that the token has been revoked.
RejectedAfterLogout ==
    (ret.op = "authenticate" /\ sessions[ret.jti].loggedOut) =>
        /\ ret.status = 401
        /\ ret.at < ret.exp => ret.message = "Token has been revoked"

\* a token rejected as revoked some time after its logout and before its
\* expiry
WitnessRevokedBeforeExpiry ==
    /\ ret.op = "authenticate" /\ sessions[ret.jti].loggedOut
    /\ ret.message = "Token has been revoked"
    /\ ret.at > ret.exp - ACCESS_TTL
    /\ ret.at < ret.exp

----------------------------------------------------------------------------
\* C31: a request is given up after a 5xx answer or no answer only when
\* retryAttempts re-sends of it have been made, whether or not its retry
\* counter was set when it was first sent.
ResentUntilCap ==
    (ret.op = "request" /\ ~ret.ok /\ ServerErrorOrNone(ret.answers[Len(ret.answers)])) =>
        ret.attempts - 1 >= RETRY_ATTEMPTS

----------------------------------------------------------------------------
\* C32: the retry counter of a request never exceeds retryAttempts, a
\* request is sent at most retryAttempts times again, and every request
\* sent is eventually answered to its caller.
RetryBounded ==
    \A p \in Procs :
        req[p].op = "request" =>
            /\ req[p].retry # NULL => req[p].retry <= RETRY_ATTEMPTS
            /\ req[p].attempts - 1 <= RETRY_ATTEMPTS

RetryTerminates ==
    /\ []RetryBounded
    /\ \A p \in Procs : (req[p].op = "request") ~> (req[p] = Idle)

\* a request in flight whose counter has reached retryAttempts
WitnessRetryAtCap ==
    \E p \in Procs :
        /\ req[p].op = "request"
        /\ req[p].retry = RETRY_ATTEMPTS
        /\ req[p].attempts = RETRY_ATTEMPTS + 1

----------------------------------------------------------------------------
\* C33: the k-th re-send of a request is made after a delay of 2^k seconds,
\* so each re-send of a request waits longer than the one before it.
BackoffDoubles ==
    \A p \in Procs :
        req[p].op = "request" =>
            /\ Len(req[p].delays) = req[p].attempts - 1
            /\ \A k \in 1 .. Len(req[p].delays) : req[p].delays[k] = (2 ^ k) * 1000
            /\ \A k \in 1 .. (Len(req[p].delays) - 1) :
                   req[p].delays[k] < req[p].delays[k + 1]

\* a request that has been re-sent retryAttempts times
WitnessThreeDelays ==
    \E p \in Procs : req[p].op = "request" /\ Len(req[p].delays) = RETRY_ATTEMPTS

----------------------------------------------------------------------------
\* C34: the verification cache never holds more entries than its capacity
\* nor two entries for one key, and a verifyKey that stores a new key in a
\* full cache removes exactly the entry whose last look-up or store is the
\* oldest.
CachedKeys(cache) == {cache[i].key : i \in 1 .. Len(cache)}

LastUse(k) == CHOOSE i \in 1 .. Len(useLog) :
                  useLog[i] = k /\ \A j \in (i + 1) .. Len(useLog) : useLog[j] # k

LeastRecent ==
    CHOOSE k \in CachedKeys(verificationCache) :
        \A other \in CachedKeys(verificationCache) : LastUse(k) <= LastUse(other)

CacheBounded ==
    /\ Len(verificationCache) <= CacheCapacity
    /\ Cardinality(CachedKeys(verificationCache)) = Len(verificationCache)

EvictsLeastRecent ==
    (ret'.op = "verifyKey" /\ ~ret'.cached /\ Len(verificationCache) = CacheCapacity) =>
        CachedKeys(verificationCache') =
            (CachedKeys(verificationCache) \ {LeastRecent})
                \cup {useLog'[Len(useLog')]}

CacheIsLru == []CacheBounded /\ [][EvictsLeastRecent]_vars

\* a full cache whose oldest entry is not its least recently used one: the
\* key stored first has been looked up since the other was stored
WitnessReadRefreshesEntry ==
    /\ Len(verificationCache) = CacheCapacity
    /\ Len(useLog) = MaxVerifyCalls
    /\ useLog[1] = useLog[Len(useLog) - 1]
    /\ useLog[1] # useLog[2]
    /\ useLog[Len(useLog)] \notin {useLog[1], useLog[2]}
    /\ ret.op = "verifyKey" /\ ~ret.cached

----------------------------------------------------------------------------
\* C35: createKey is answered with an error only when the user holds
\* MAX_KEYS active keys.
IssueSucceedsBelowLimit ==
    (ret.op = "createKey" /\ ret.status # 201) =>
        \E u \in Users : Cardinality(ActiveKeys(u)) >= MAX_KEYS

----------------------------------------------------------------------------
\* C36: a deactivateApiKey(keyId) that succeeds found the key of that id
\* active and changes the isActive of that key only; one that finds the key
\* inactive or absent fails and changes no key.
RevokeChange ==
    (calls' = calls + 1 /\ ret'.op = "deactivateApiKey") =>
        IF \E u \in DOMAIN apiKeys : \E i \in Indices(apiKeys[u]) :
               apiKeys[u][i].id = ret'.keyId /\ apiKeys[u][i].isActive
        THEN \A u \in DOMAIN apiKeys :
                 \/ apiKeys'[u] = apiKeys[u]
                 \/ \E i \in Indices(apiKeys[u]) :
                        /\ apiKeys[u][i].id = ret'.keyId
                        /\ ret'.ok
                        /\ apiKeys'[u] = [apiKeys[u] EXCEPT ![i].isActive = FALSE]
        ELSE ~ret'.ok /\ UNCHANGED apiKeys

RevokeChangesOnlyItsKey == [][RevokeChange]_vars

----------------------------------------------------------------------------
\* C37: a getAccounts request that found the stored access token valid for
\* more than five minutes (and so made no refresh call) leaves the stored
\* tokens, expiry and token version of the user as they were.
FreshRequestStep ==
    \A p \in Procs :
        (/\ req[p].op = "getAccounts"
         /\ req[p].upstreamCalls = 0
         /\ req[p].loaded.tokenExpiresAt > req[p].at + FIVE_MINUTES
         /\ req'[p] # req[p]) => UNCHANGED trueLayer

FreshRequestWritesNothing == [][FreshRequestStep]_vars

-----------------------------------------------------------------------------
\* C38: with a provider that invalidates a refresh token once it has been
\* exchanged, whenever no request of a user is in progress the refresh
\* token in the user's record is not one the provider has already exchanged
\* (and so superseded by a newer one).
StoredRefreshTokenIsCurrent ==
    (\A p \in Procs : req[p] = Idle) =>
        \A u \in Users : trueLayer[u].refreshToken \notin usedRefresh

-----------------------------------------------------------------------------
\* C39: the answer to a request that carried a user's own access token
\* (an accounts or transactions fetch), a 401 included, leaves the cache of
\* the service token as it was.
UserRequestAnswered ==
    \A p \in Procs :
        (/\ Sent(p, "request")
         /\ req[p].bearer = "user"
         /\ req'[p] # req[p]) => tokenCache' = tokenCache

UserTokenFailureKeepsCache == [][UserRequestAnswered]_vars

-----------------------------------------------------------------------------
\* C40: a key list answered to a user shows the user's key collection as it
\* is when the list is requested, and so includes every issue or revoke of
\* the user that succeeded before: a list taken from the response cache is
\* equal to the stored collection.
ListShowsLatestChange ==
    ret.op = "getApiKeys" => ret.keys = KeyMetadata(apiKeys[ret.user])

=============================================================================
